---- MODULE Spec2Model ----
(***************************************************************************)
(* A model of consul's StateStore (consul/state_store.go): the six MDB     *)
(* tables with their last-index watermarks, the write methods (each one    *)
(* write transaction, committed or aborted as a whole), the per-table      *)
(* NotifyGroups behind Watch, snapshots and read transactions.             *)
(*                                                                         *)
(* MDBTable, MDBTxn and NotifyGroup live outside state_store.go; they are  *)
(* modelled from the design document (sections 4.1 - 4.3) and are marked   *)
(* as such where they are defined.                                         *)
(***************************************************************************)
EXTENDS Integers, Sequences, FiniteSets, TLC

VARIABLES
    db,      \* the committed store: [rows: table -> set of rows, idx: table -> last index]
    watch,   \* StateStore.watch: table -> the channels waiting in its NotifyGroup
    ret,     \* what the last call returned and which NotifyGroups it fired
    hung,    \* TRUE once a write call spins forever holding the write transaction
    snap,    \* the StateSnapshot handed out by Snapshot(), if one is open
    rd       \* the read query in progress, if any: its name, argument and transaction

vars == <<db, watch, ret, hung, snap, rd>>

----------------------------------------------------------------------------
(* Bounds *)

\* the consensus indexes carried by write calls range over 1..MaxIndex; the
\* indexes a record or a check-and-set attempt carries over 0..MaxIndex
MaxIndex == 2

CallIndexes == 1 .. MaxIndex
Indexes == 0 .. MaxIndex

\* KV keys are strings, modelled as sequences of characters
Keys == {<<"a">>, <<"a", "b">>}
Prefixes == {<<>>, <<"a">>, <<"b">>}
Values == {"v1"}

\* notify channels handed to Watch
Chans == {"ch1"}

----------------------------------------------------------------------------
(* Table names, state_store.go:15-21 *)

dbNodes == "nodes"
dbServices == "services"
dbChecks == "checks"
dbKVS == "kvs"
dbSessions == "sessions"
dbSessionChecks == "sessionChecks"

\* StateStore.tables, state_store.go:274-275
Tables == {dbNodes, dbServices, dbChecks, dbKVS, dbSessions, dbSessionChecks}

HealthUnknown == "unknown"
HealthPassing == "passing"
HealthCritical == "critical"

----------------------------------------------------------------------------
(* MDBTable / MDBTxn (design document 4.1, 4.2) *)

IsPrefix(p, s) == Len(p) <= Len(s) /\ SubSeq(s, 1, Len(p)) = p

Max(a, b) == IF a >= b THEN a ELSE b

\* the field values an index is built from, per the schema of initialize()
IndexFields(t, index, r) ==
    CASE t = dbNodes /\ index = "id" -> <<r.Node>>
      [] t = dbServices /\ index = "id" -> <<r.Node, r.ServiceID>>
      [] t = dbServices /\ index = "service" -> <<r.ServiceName>>
      [] t = dbChecks /\ index = "id" -> <<r.Node, r.CheckID>>
      [] t = dbChecks /\ index = "status" -> <<r.Status>>
      [] t = dbChecks /\ index = "service" -> <<r.ServiceName>>
      [] t = dbChecks /\ index = "node" -> <<r.Node, r.ServiceID>>
      [] t = dbKVS /\ index = "id" -> <<r.Key>>
      [] t = dbKVS /\ index = "id_prefix" -> <<r.Key>>
      [] t = dbSessions /\ index = "id" -> <<r.ID>>
      [] t = dbSessions /\ index = "node" -> <<r.Node>>
      [] t = dbSessionChecks /\ index = "id" -> <<r.Node, r.CheckID, r.Session>>

\* does row r match the index lookup (index, parts)?  The leading fields must
\* equal the parts; the virtual prefix index of kvs matches a prefix of the
\* Key (DefaultIndexPrefixFunc).
Matches(t, index, parts, r) ==
    IF t = dbKVS /\ index = "id_prefix"
    THEN parts = <<>> \/ IsPrefix(parts[1], r.Key)
    ELSE IsPrefix(parts, IndexFields(t, index, r))

\* an empty store: no rows, every watermark 0
EmptyStore ==
    [rows |-> [t \in Tables |-> {}], idx |-> [t \in Tables |-> 0]]

\* MDBTable.StartTxn / MDBTables.StartTxn: the transaction's view of the store
StartTxn(store) == store

\* MDBTable.GetTxn(tx, index, parts...): the matching rows
GetTxn(tx, t, index, parts) ==
    {r \in tx.rows[t] : Matches(t, index, parts, r)}

\* MDBTable.InsertTxn(tx, row): replaces the row with the same primary key
InsertTxn(tx, t, row) ==
    [tx EXCEPT !.rows[t] =
        {r \in @ : IndexFields(t, "id", r) # IndexFields(t, "id", row)} \cup {row}]

\* MDBTable.DeleteTxn(tx, index, parts...): the transaction after the delete
\* and the number of rows deleted
DeleteTxn(tx, t, index, parts) ==
    [tx |-> [tx EXCEPT !.rows[t] = @ \ GetTxn(tx, t, index, parts)],
     n  |-> Cardinality(GetTxn(tx, t, index, parts))]

\* MDBTable.SetLastIndexTxn(tx, index): writes the watermark
SetLastIndexTxn(tx, t, index) == [tx EXCEPT !.idx[t] = index]

\* MDBTable.SetMaxLastIndexTxn(tx, index): raises the watermark, never lowers it
SetMaxLastIndexTxn(tx, t, index) == [tx EXCEPT !.idx[t] = Max(@, index)]

RECURSIVE MaxOver(_, _)
MaxOver(f, S) ==
    IF S = {} THEN 0
    ELSE LET x == CHOOSE y \in S : TRUE
         IN Max(f[x], MaxOver(f, S \ {x}))

\* MDBTables.LastIndexTxn(tx): the maximum watermark over the group
LastIndexTxn(tx, tables) == MaxOver(tx.idx, tables)

----------------------------------------------------------------------------
(* Faults of the storage engine: the step of a handler that returns an     *)
(* error, if any.  <<kind, table>> names the failing call.                 *)

NoFault == <<"none", "">>
StartFault == <<"start", "">>
CommitFault == <<"commit", "">>
GetFault(t) == <<"get", t>>
InsertFault(t) == <<"insert", t>>
DeleteFault(t) == <<"delete", t>>
IndexFault(t) == <<"index", t>>

----------------------------------------------------------------------------
(* Outcome of a write handler *)

\* the handler returned before tx.Commit(): `defer tx.Abort()` discards the
\* transaction; the NotifyGroups of `notify` were deferred before the return
\* and fire all the same
Aborted(isErr, notify) ==
    [commit |-> FALSE, tx |-> EmptyStore, err |-> isErr, ok |-> FALSE,
     notify |-> notify, touched |-> {}, spin |-> FALSE]

\* tx.Commit() returned nil
Committed(tx, notify, touched) ==
    [commit |-> TRUE, tx |-> tx, err |-> FALSE, ok |-> TRUE,
     notify |-> notify, touched |-> touched, spin |-> FALSE]

\* tx.Commit() returned an error: nothing is stored, the handler's boolean
\* result (if it has one) is `okv`
CommitFailed(okv, notify) ==
    [commit |-> FALSE, tx |-> EmptyStore, err |-> TRUE, ok |-> okv,
     notify |-> notify, touched |-> {}, spin |-> FALSE]

----------------------------------------------------------------------------
(* NotifyGroup (design document 4.3) and the common tail of a write call   *)

\* NotifyGroup.Wait(ch) on each table of the group: Watch, state_store.go:306-311
WatchTables(w, tables, ch) ==
    [t \in Tables |-> IF t \in tables THEN w[t] \cup {ch} ELSE w[t]]

\* NotifyGroup.Notify() on each table of `notify`: the waiting set is emptied
Notify(w, notify) ==
    [t \in Tables |-> IF t \in notify THEN {} ELSE w[t]]

\* the number of signals each channel receives when the groups of `notify` fire
Signals(w, notify) ==
    [ch \in Chans |-> Cardinality({t \in notify : ch \in w[t]})]

NoSignals == [ch \in Chans |-> 0]

\* A write call from start to return: the handler's transaction is committed
\* or dropped, then the deferred Notify calls run.
Write(op, args, out) ==
    /\ ~hung
    /\ IF out.spin
       THEN /\ hung' = TRUE
            /\ UNCHANGED <<db, watch, ret, snap, rd>>
       ELSE /\ db' = IF out.commit THEN out.tx ELSE db
            /\ watch' = Notify(watch, out.notify)
            /\ ret' = [op |-> op, args |-> args, err |-> out.err, ok |-> out.ok,
                       notified |-> out.notify, touched |-> out.touched,
                       sig |-> Signals(watch, out.notify)]
            /\ UNCHANGED <<hung, snap, rd>>

----------------------------------------------------------------------------
(* KV write methods *)

\* the one row of a unique-index lookup (res[0])
First(res) == CHOOSE r \in res : TRUE

\* KVSSet that stamps CreateIndex with the call's index on every write
KVSSetTxn_FreshCreate(store, index, d, f) ==
    LET tx  == StartTxn(store)
        e   == [d EXCEPT !.CreateIndex = index, !.ModifyIndex = index]
        tx2 == SetLastIndexTxn(InsertTxn(tx, dbKVS, e), dbKVS, index)
    IN  IF f \in {StartFault, GetFault(dbKVS), InsertFault(dbKVS), IndexFault(dbKVS)}
        THEN Aborted(TRUE, {})
        ELSE IF f = CommitFault THEN CommitFailed(FALSE, {dbKVS})
        ELSE Committed(tx2, {dbKVS}, {dbKVS})

\* StateStore.KVSSet, state_store.go:891-921
KVSSetTxn(store, index, d, f) ==
    LET tx  == StartTxn(store)
        res == GetTxn(tx, dbKVS, "id", <<d.Key>>)
        e   == [d EXCEPT !.CreateIndex = IF res = {} THEN index
                                         ELSE First(res).CreateIndex,
                         !.ModifyIndex = index]
        tx1 == InsertTxn(tx, dbKVS, e)
        tx2 == SetLastIndexTxn(tx1, dbKVS, index)
    IN  IF f \in {StartFault, GetFault(dbKVS), InsertFault(dbKVS), IndexFault(dbKVS)}
        THEN Aborted(TRUE, {})
        ELSE IF f = CommitFault THEN CommitFailed(FALSE, {dbKVS})
        ELSE Committed(tx2, {dbKVS}, {dbKVS})

KVSSet(index, d, f) ==
    Write("KVSSet", [index |-> index, d |-> d], KVSSetTxn(db, index, d, f))

\* StateStore.KVSRestore, state_store.go:925-937
KVSRestoreTxn(store, d, f) ==
    LET tx  == StartTxn(store)
        tx1 == InsertTxn(tx, dbKVS, d)
    IN  IF f \in {StartFault, InsertFault(dbKVS)} THEN Aborted(TRUE, {})
        ELSE IF f = CommitFault THEN CommitFailed(FALSE, {})
        ELSE Committed(tx1, {}, {dbKVS})

KVSRestore(d, f) ==
    Write("KVSRestore", [d |-> d], KVSRestoreTxn(db, d, f))

\* kvsDeleteWithIndex setting the watermark and firing whether or not a row
\* was deleted
kvsDeleteWithIndex_AlwaysAdvances(store, index, tableIndex, parts, f) ==
    LET tx  == StartTxn(store)
        del == DeleteTxn(tx, dbKVS, tableIndex, parts)
        tx1 == SetLastIndexTxn(del.tx, dbKVS, index)
    IN  IF f # NoFault THEN Aborted(TRUE, {})
        ELSE Committed(tx1, {dbKVS}, {dbKVS})

\* StateStore.kvsDeleteWithIndex, state_store.go:1024-1044
kvsDeleteWithIndex(store, index, tableIndex, parts, f) ==
    LET tx  == StartTxn(store)
        del == DeleteTxn(tx, dbKVS, tableIndex, parts)
        tx1 == SetLastIndexTxn(del.tx, dbKVS, index)
    IN  IF f \in {StartFault, DeleteFault(dbKVS)} THEN Aborted(TRUE, {})
        ELSE IF del.n > 0
        THEN IF f = IndexFault(dbKVS) THEN Aborted(TRUE, {})
             ELSE IF f = CommitFault THEN CommitFailed(FALSE, {dbKVS})
             ELSE Committed(tx1, {dbKVS}, {dbKVS})
        ELSE IF f = CommitFault THEN CommitFailed(FALSE, {})
             ELSE Committed(del.tx, {}, {})

\* StateStore.KVSDelete, state_store.go:1011-1013
KVSDelete(index, key, f) ==
    Write("KVSDelete", [index |-> index, key |-> key],
          kvsDeleteWithIndex(db, index, "id", <<key>>, f))

\* StateStore.KVSDeleteTree, state_store.go:1016-1021
KVSDeleteTree(index, prefix, f) ==
    Write("KVSDeleteTree", [index |-> index, prefix |-> prefix],
          IF prefix = <<>>
          THEN kvsDeleteWithIndex(db, index, "id", <<>>, f)
          ELSE kvsDeleteWithIndex(db, index, "id_prefix", <<prefix>>, f))

\* a check-and-set constraint that only looks at whether the key exists
CasConstraint_ExistsOnly(res, d) ==
    IF d.ModifyIndex = 0 /\ res # {} THEN FALSE
    ELSE IF d.ModifyIndex > 0 /\ res = {} THEN FALSE
    ELSE TRUE

\* the ModifyIndex constraint of check-and-set, state_store.go:1067-1074:
\* FALSE when the call returns (false, nil) at this point
CasConstraint(res, d) ==
    IF d.ModifyIndex = 0 /\ res # {} THEN FALSE
    ELSE IF d.ModifyIndex > 0
            /\ (res = {} \/ First(res).ModifyIndex # d.ModifyIndex) THEN FALSE
    ELSE TRUE

\* KVSCheckAndSet with the kvs Notify deferred before the constraint is checked
KVSCheckAndSetTxn_EarlyNotify(store, index, d, f) ==
    LET tx  == StartTxn(store)
        res == GetTxn(tx, dbKVS, "id", <<d.Key>>)
        e   == [d EXCEPT !.CreateIndex = IF res = {} THEN index
                                         ELSE First(res).CreateIndex,
                         !.ModifyIndex = index]
        tx2 == SetLastIndexTxn(InsertTxn(tx, dbKVS, e), dbKVS, index)
    IN  IF f \in {StartFault, GetFault(dbKVS)} THEN Aborted(TRUE, {})
        ELSE IF ~CasConstraint(res, d) THEN Aborted(FALSE, {dbKVS})
        ELSE IF f \in {InsertFault(dbKVS), IndexFault(dbKVS)} THEN Aborted(TRUE, {})
        ELSE IF f = CommitFault THEN CommitFailed(TRUE, {dbKVS})
        ELSE Committed(tx2, {dbKVS}, {dbKVS})

\* StateStore.KVSCheckAndSet, state_store.go:1047-1092
KVSCheckAndSetTxn(store, index, d, f) ==
    LET tx  == StartTxn(store)
        res == GetTxn(tx, dbKVS, "id", <<d.Key>>)
        e   == [d EXCEPT !.CreateIndex = IF res = {} THEN index
                                         ELSE First(res).CreateIndex,
                         !.ModifyIndex = index]
        tx1 == InsertTxn(tx, dbKVS, e)
        tx2 == SetLastIndexTxn(tx1, dbKVS, index)
    IN  IF f \in {StartFault, GetFault(dbKVS)} THEN Aborted(TRUE, {})
        ELSE IF ~CasConstraint(res, d) THEN Aborted(FALSE, {})
        ELSE IF f \in {InsertFault(dbKVS), IndexFault(dbKVS)} THEN Aborted(TRUE, {})
        ELSE IF f = CommitFault THEN CommitFailed(TRUE, {dbKVS})
        ELSE Committed(tx2, {dbKVS}, {dbKVS})

KVSCheckAndSet(index, d, f) ==
    Write("KVSCheckAndSet", [index |-> index, d |-> d],
          KVSCheckAndSetTxn(db, index, d, f))

----------------------------------------------------------------------------
(* Catalog write methods *)

\* StateStore.EnsureNode, state_store.go:319-335
EnsureNodeTxn(store, index, node, f) ==
    LET tx  == StartTxn(store)
        tx1 == InsertTxn(tx, dbNodes, node)
        tx2 == SetLastIndexTxn(tx1, dbNodes, index)
    IN  IF f \in {StartFault, InsertFault(dbNodes), IndexFault(dbNodes)}
        THEN Aborted(TRUE, {})
        ELSE IF f = CommitFault THEN CommitFailed(FALSE, {dbNodes})
        ELSE Committed(tx2, {dbNodes}, {dbNodes})

EnsureNode(index, node, f) ==
    Write("EnsureNode", [index |-> index, node |-> node],
          EnsureNodeTxn(db, index, node, f))

\* EnsureService without the lookup of the node
EnsureServiceTxn_NoNodeCheck(store, index, node, ns, f) ==
    LET tx    == StartTxn(store)
        entry == [Node |-> node, ServiceID |-> ns.ID, ServiceName |-> ns.Service,
                  ServiceTags |-> ns.Tags, ServicePort |-> ns.Port]
        tx1   == InsertTxn(tx, dbServices, entry)
        tx2   == SetLastIndexTxn(tx1, dbServices, index)
    IN  IF f = CommitFault THEN CommitFailed(FALSE, {dbServices})
        ELSE IF f # NoFault THEN Aborted(TRUE, {})
        ELSE Committed(tx2, {dbServices}, {dbServices})

\* EnsureService leaving an earlier service with the same (node, ID) in place
EnsureServiceTxn_KeepsEarlier(store, index, node, ns, f) ==
    LET tx    == StartTxn(store)
        res   == GetTxn(tx, dbNodes, "id", <<node>>)
        old   == GetTxn(tx, dbServices, "id", <<node, ns.ID>>)
        entry == [Node |-> node, ServiceID |-> ns.ID, ServiceName |-> ns.Service,
                  ServiceTags |-> ns.Tags, ServicePort |-> ns.Port]
        tx1   == IF old = {} THEN InsertTxn(tx, dbServices, entry) ELSE tx
        tx2   == SetLastIndexTxn(tx1, dbServices, index)
    IN  IF f = GetFault(dbNodes) THEN Aborted(TRUE, {})
        ELSE IF res = {} THEN Aborted(TRUE, {})
        ELSE IF f \in {InsertFault(dbServices), IndexFault(dbServices)}
        THEN Aborted(TRUE, {})
        ELSE IF f = CommitFault THEN CommitFailed(FALSE, {dbServices})
        ELSE Committed(tx2, {dbServices}, {dbServices})

\* StateStore.EnsureService, state_store.go:365-400
EnsureServiceTxn(store, index, node, ns, f) ==
    LET tx    == StartTxn(store)
        res   == GetTxn(tx, dbNodes, "id", <<node>>)
        entry == [Node |-> node, ServiceID |-> ns.ID, ServiceName |-> ns.Service,
                  ServiceTags |-> ns.Tags, ServicePort |-> ns.Port]
        tx1   == InsertTxn(tx, dbServices, entry)
        tx2   == SetLastIndexTxn(tx1, dbServices, index)
    IN  IF f = GetFault(dbNodes) THEN Aborted(TRUE, {})
        ELSE IF res = {} THEN Aborted(TRUE, {})
        ELSE IF f \in {InsertFault(dbServices), IndexFault(dbServices)}
        THEN Aborted(TRUE, {})
        ELSE IF f = CommitFault THEN CommitFailed(FALSE, {dbServices})
        ELSE Committed(tx2, {dbServices}, {dbServices})

EnsureService(index, node, ns, f) ==
    Write("EnsureService", [index |-> index, node |-> node, ns |-> ns],
          EnsureServiceTxn(db, index, node, ns, f))

\* EnsureCheck storing the ServiceName the caller supplied
EnsureCheckTxn_SuppliedName(store, index, check, f) ==
    LET chk0 == IF check.Status = "" THEN [check EXCEPT !.Status = HealthUnknown]
                ELSE check
        tx   == StartTxn(store)
        res  == GetTxn(tx, dbNodes, "id", <<chk0.Node>>)
        srv  == GetTxn(tx, dbServices, "id", <<chk0.Node, chk0.ServiceID>>)
        tx1  == InsertTxn(tx, dbChecks, chk0)
        tx2  == SetLastIndexTxn(tx1, dbChecks, index)
    IN  IF f # NoFault \/ res = {} THEN Aborted(TRUE, {})
        ELSE IF chk0.ServiceID # "" /\ srv = {} THEN Aborted(TRUE, {})
        ELSE Committed(tx2, {dbChecks}, {dbChecks})

\* StateStore.EnsureCheck, state_store.go:626-672
EnsureCheckTxn(store, index, check, f) ==
    LET chk0 == IF check.Status = "" THEN [check EXCEPT !.Status = HealthUnknown]
                ELSE check
        tx   == StartTxn(store)
        res  == GetTxn(tx, dbNodes, "id", <<chk0.Node>>)
        srv  == GetTxn(tx, dbServices, "id", <<chk0.Node, chk0.ServiceID>>)
        chk  == IF chk0.ServiceID # "" /\ srv # {}
                THEN [chk0 EXCEPT !.ServiceName = First(srv).ServiceName]
                ELSE chk0
        tx1  == InsertTxn(tx, dbChecks, chk)
        tx2  == SetLastIndexTxn(tx1, dbChecks, index)
    IN  IF f = GetFault(dbNodes) THEN Aborted(TRUE, {})
        ELSE IF res = {} THEN Aborted(TRUE, {})
        ELSE IF chk0.ServiceID # "" /\ f = GetFault(dbServices) THEN Aborted(TRUE, {})
        ELSE IF chk0.ServiceID # "" /\ srv = {} THEN Aborted(TRUE, {})
        ELSE IF f \in {InsertFault(dbChecks), IndexFault(dbChecks)}
        THEN Aborted(TRUE, {})
        ELSE IF f = CommitFault THEN CommitFailed(FALSE, {dbChecks})
        ELSE Committed(tx2, {dbChecks}, {dbChecks})

EnsureCheck(index, check, f) ==
    Write("EnsureCheck", [index |-> index, check |-> check],
          EnsureCheckTxn(db, index, check, f))

\* DeleteNodeService deleting the services row and leaving its checks
DeleteNodeServiceTxn_KeepsChecks(store, index, node, id, f) ==
    LET tx  == StartTxn(store)
        d1  == DeleteTxn(tx, dbServices, "id", <<node, id>>)
        tx1 == IF d1.n > 0 THEN SetLastIndexTxn(d1.tx, dbServices, index) ELSE d1.tx
        n1  == IF d1.n > 0 THEN {dbServices} ELSE {}
    IN  IF f # NoFault THEN Aborted(TRUE, {})
        ELSE Committed(tx1, n1, n1)

\* DeleteNodeService deleting every check of the node
DeleteNodeServiceTxn_AllChecks(store, index, node, id, f) ==
    LET tx  == StartTxn(store)
        d1  == DeleteTxn(tx, dbServices, "id", <<node, id>>)
        tx1 == IF d1.n > 0 THEN SetLastIndexTxn(d1.tx, dbServices, index) ELSE d1.tx
        n1  == IF d1.n > 0 THEN {dbServices} ELSE {}
        d2  == DeleteTxn(tx1, dbChecks, "id", <<node>>)
        tx2 == IF d2.n > 0 THEN SetLastIndexTxn(d2.tx, dbChecks, index) ELSE d2.tx
        n2  == IF d2.n > 0 THEN {dbChecks} ELSE {}
    IN  IF f # NoFault THEN Aborted(TRUE, {})
        ELSE Committed(tx2, n1 \cup n2, n1 \cup n2)

\* StateStore.DeleteNodeService, state_store.go:460-485
DeleteNodeServiceTxn(store, index, node, id, f) ==
    LET tx  == StartTxn(store)
        d1  == DeleteTxn(tx, dbServices, "id", <<node, id>>)
        tx1 == IF d1.n > 0 THEN SetLastIndexTxn(d1.tx, dbServices, index) ELSE d1.tx
        n1  == IF d1.n > 0 THEN {dbServices} ELSE {}
        d2  == DeleteTxn(tx1, dbChecks, "node", <<node, id>>)
        tx2 == IF d2.n > 0 THEN SetLastIndexTxn(d2.tx, dbChecks, index) ELSE d2.tx
        n2  == IF d2.n > 0 THEN {dbChecks} ELSE {}
    IN  IF f = DeleteFault(dbServices) THEN Aborted(TRUE, {})
        ELSE IF d1.n > 0 /\ f = IndexFault(dbServices) THEN Aborted(TRUE, {})
        ELSE IF f = DeleteFault(dbChecks) THEN Aborted(TRUE, n1)
        ELSE IF d2.n > 0 /\ f = IndexFault(dbChecks) THEN Aborted(TRUE, n1)
        ELSE IF f = CommitFault THEN CommitFailed(FALSE, n1 \cup n2)
        ELSE Committed(tx2, n1 \cup n2, n1 \cup n2)

DeleteNodeService(index, node, id, f) ==
    Write("DeleteNodeService", [index |-> index, node |-> node, id |-> id],
          DeleteNodeServiceTxn(db, index, node, id, f))

\* DeleteNode setting the three watermarks whether or not a row was deleted
DeleteNodeTxn_AlwaysAdvances(store, index, node, f) ==
    LET tx  == StartTxn(store)
        d1  == DeleteTxn(tx, dbServices, "id", <<node>>)
        tx1 == SetLastIndexTxn(d1.tx, dbServices, index)
        d2  == DeleteTxn(tx1, dbChecks, "id", <<node>>)
        tx2 == SetLastIndexTxn(d2.tx, dbChecks, index)
        d3  == DeleteTxn(tx2, dbNodes, "id", <<node>>)
        tx3 == SetLastIndexTxn(d3.tx, dbNodes, index)
    IN  IF f # NoFault THEN Aborted(TRUE, {})
        ELSE Committed(tx3, {dbNodes, dbServices, dbChecks},
                       {dbNodes, dbServices, dbChecks})

\* DeleteNode deferring Notify for the nodes table only
DeleteNodeTxn_NotifyNodesOnly(store, index, node, f) ==
    LET tx  == StartTxn(store)
        d1  == DeleteTxn(tx, dbServices, "id", <<node>>)
        tx1 == IF d1.n > 0 THEN SetLastIndexTxn(d1.tx, dbServices, index) ELSE d1.tx
        n1  == IF d1.n > 0 THEN {dbServices} ELSE {}
        d2  == DeleteTxn(tx1, dbChecks, "id", <<node>>)
        tx2 == IF d2.n > 0 THEN SetLastIndexTxn(d2.tx, dbChecks, index) ELSE d2.tx
        n2  == IF d2.n > 0 THEN {dbChecks} ELSE {}
        d3  == DeleteTxn(tx2, dbNodes, "id", <<node>>)
        tx3 == IF d3.n > 0 THEN SetLastIndexTxn(d3.tx, dbNodes, index) ELSE d3.tx
        n3  == IF d3.n > 0 THEN {dbNodes} ELSE {}
    IN  IF f # NoFault THEN Aborted(TRUE, {})
        ELSE Committed(tx3, n3, n1 \cup n2 \cup n3)

\* StateStore.DeleteNode, state_store.go:488-521
DeleteNodeTxn(store, index, node, f) ==
    LET tx  == StartTxn(store)
        d1  == DeleteTxn(tx, dbServices, "id", <<node>>)
        tx1 == IF d1.n > 0 THEN SetLastIndexTxn(d1.tx, dbServices, index) ELSE d1.tx
        n1  == IF d1.n > 0 THEN {dbServices} ELSE {}
        d2  == DeleteTxn(tx1, dbChecks, "id", <<node>>)
        tx2 == IF d2.n > 0 THEN SetLastIndexTxn(d2.tx, dbChecks, index) ELSE d2.tx
        n2  == IF d2.n > 0 THEN {dbChecks} ELSE {}
        d3  == DeleteTxn(tx2, dbNodes, "id", <<node>>)
        tx3 == IF d3.n > 0 THEN SetLastIndexTxn(d3.tx, dbNodes, index) ELSE d3.tx
        n3  == IF d3.n > 0 THEN {dbNodes} ELSE {}
    IN  IF f = DeleteFault(dbServices) THEN Aborted(TRUE, {})
        ELSE IF d1.n > 0 /\ f = IndexFault(dbServices) THEN Aborted(TRUE, {})
        ELSE IF f = DeleteFault(dbChecks) THEN Aborted(TRUE, n1)
        ELSE IF d2.n > 0 /\ f = IndexFault(dbChecks) THEN Aborted(TRUE, n1)
        ELSE IF f = DeleteFault(dbNodes) THEN Aborted(TRUE, n1 \cup n2)
        ELSE IF d3.n > 0 /\ f = IndexFault(dbNodes) THEN Aborted(TRUE, n1 \cup n2)
        ELSE IF f = CommitFault THEN CommitFailed(FALSE, n1 \cup n2 \cup n3)
        ELSE Committed(tx3, n1 \cup n2 \cup n3, n1 \cup n2 \cup n3)

DeleteNode(index, node, f) ==
    Write("DeleteNode", [index |-> index, node |-> node],
          DeleteNodeTxn(db, index, node, f))

\* StateStore.DeleteNodeCheck, state_store.go:675-691
DeleteNodeCheckTxn(store, index, node, id, f) ==
    LET tx  == StartTxn(store)
        d1  == DeleteTxn(tx, dbChecks, "id", <<node, id>>)
        tx1 == IF d1.n > 0 THEN SetLastIndexTxn(d1.tx, dbChecks, index) ELSE d1.tx
        n1  == IF d1.n > 0 THEN {dbChecks} ELSE {}
    IN  IF f \in {StartFault, DeleteFault(dbChecks)} THEN Aborted(TRUE, {})
        ELSE IF d1.n > 0 /\ f = IndexFault(dbChecks) THEN Aborted(TRUE, {})
        ELSE IF f = CommitFault THEN CommitFailed(FALSE, n1)
        ELSE Committed(tx1, n1, n1)

DeleteNodeCheck(index, node, id, f) ==
    Write("DeleteNodeCheck", [index |-> index, node |-> node, id |-> id],
          DeleteNodeCheckTxn(db, index, node, id, f))

----------------------------------------------------------------------------
(* Sessions *)

\* the elements of a list
Range(seq) == {seq[i] : i \in 1 .. Len(seq)}

\* the sessionCheck rows of a session, state_store.go:1152-1158
InsertSessionChecks(tx, session) ==
    [tx EXCEPT !.rows[dbSessionChecks] =
        @ \cup {[Node |-> session.Node, CheckID |-> c, Session |-> session.ID] :
                   c \in Range(session.Checks)}]

\* SessionCreate accepting only checks that are passing
SessionCreateTxn_PassingOnly(store, index, session, id, f) ==
    LET tx      == StartTxn(store)
        res     == GetTxn(tx, dbNodes, "id", <<session.Node>>)
        found(c) == GetTxn(tx, dbChecks, "id", <<session.Node, c>>)
        missing == \E c \in Range(session.Checks) : found(c) = {}
        failing == \E c \in Range(session.Checks) :
                       \E chk \in found(c) : chk.Status # HealthPassing
        sess    == [session EXCEPT !.CreateIndex = index, !.ID = id]
        taken   == GetTxn(tx, dbSessions, "id", <<id>>)
        tx1     == InsertTxn(tx, dbSessions, sess)
        tx2     == InsertSessionChecks(tx1, sess)
        tx3     == SetLastIndexTxn(tx2, dbSessions, index)
        tx4     == SetLastIndexTxn(tx3, dbSessionChecks, index)
    IN  IF f # NoFault THEN Aborted(TRUE, {})
        ELSE IF res = {} THEN Aborted(TRUE, {})
        ELSE IF missing \/ failing THEN Aborted(TRUE, {})
        ELSE IF taken # {} THEN [Aborted(FALSE, {}) EXCEPT !.spin = TRUE]
        ELSE Committed(tx4, {dbSessions, dbSessionChecks},
                       {dbSessions, dbSessionChecks})

\* StateStore.SessionCreate, state_store.go:1096-1172; `id` is what
\* generateUUID() returns
SessionCreateTxn(store, index, session, id, f) ==
    LET tx      == StartTxn(store)
        res     == GetTxn(tx, dbNodes, "id", <<session.Node>>)
        found(c) == GetTxn(tx, dbChecks, "id", <<session.Node, c>>)
        missing == \E c \in Range(session.Checks) : found(c) = {}
        critical == \E c \in Range(session.Checks) :
                       \E chk \in found(c) : chk.Status = HealthCritical
        sess    == [session EXCEPT !.CreateIndex = index, !.ID = id]
        taken   == GetTxn(tx, dbSessions, "id", <<id>>)
        tx1     == InsertTxn(tx, dbSessions, sess)
        tx2     == InsertSessionChecks(tx1, sess)
        tx3     == SetLastIndexTxn(tx2, dbSessions, index)
        tx4     == SetLastIndexTxn(tx3, dbSessionChecks, index)
    IN  IF f = GetFault(dbNodes) THEN Aborted(TRUE, {})
        ELSE IF res = {} THEN Aborted(TRUE, {})
        ELSE IF session.Checks # <<>> /\ f = GetFault(dbChecks) THEN Aborted(TRUE, {})
        ELSE IF missing \/ critical THEN Aborted(TRUE, {})
        ELSE IF f = GetFault(dbSessions) THEN Aborted(TRUE, {})
        ELSE IF taken # {}
        THEN \* the loop at 1135-1144 looks the same ID up again and again
             [Aborted(FALSE, {}) EXCEPT !.spin = TRUE]
        ELSE IF f = InsertFault(dbSessions) THEN Aborted(TRUE, {})
        ELSE IF session.Checks # <<>> /\ f = InsertFault(dbSessionChecks)
        THEN Aborted(TRUE, {})
        ELSE IF f = IndexFault(dbSessions) THEN Aborted(TRUE, {})
        ELSE IF f = IndexFault(dbSessionChecks) THEN Aborted(TRUE, {dbSessions})
        ELSE IF f = CommitFault THEN CommitFailed(FALSE, {dbSessions, dbSessionChecks})
        ELSE Committed(tx4, {dbSessions, dbSessionChecks},
                       {dbSessions, dbSessionChecks})

SessionCreate(index, session, id, f) ==
    Write("SessionCreate", [index |-> index, session |-> session, id |-> id],
          SessionCreateTxn(db, index, session, id, f))

\* SessionRestore writing the watermarks with SetLastIndexTxn
SessionRestoreTxn_Rewind(store, session, f) ==
    LET tx    == StartTxn(store)
        tx1   == InsertTxn(tx, dbSessions, session)
        tx2   == InsertSessionChecks(tx1, session)
        index == session.CreateIndex
        tx3   == SetLastIndexTxn(tx2, dbSessions, index)
        tx4   == SetLastIndexTxn(tx3, dbSessionChecks, index)
    IN  IF f # NoFault THEN Aborted(TRUE, {})
        ELSE Committed(tx4, {dbSessions, dbSessionChecks},
                       {dbSessions, dbSessionChecks})

\* SessionRestore refusing a session whose node is not registered
SessionRestoreTxn_Verifies(store, session, f) ==
    LET tx    == StartTxn(store)
        res   == GetTxn(tx, dbNodes, "id", <<session.Node>>)
        tx1   == InsertTxn(tx, dbSessions, session)
        tx2   == InsertSessionChecks(tx1, session)
        index == session.CreateIndex
        tx3   == SetMaxLastIndexTxn(tx2, dbSessions, index)
        tx4   == SetMaxLastIndexTxn(tx3, dbSessionChecks, index)
    IN  IF f # NoFault \/ res = {} THEN Aborted(TRUE, {})
        ELSE Committed(tx4, {dbSessions, dbSessionChecks},
                       {dbSessions, dbSessionChecks})

\* StateStore.SessionRestore, state_store.go:1176-1213
SessionRestoreTxn(store, session, f) ==
    LET tx    == StartTxn(store)
        tx1   == InsertTxn(tx, dbSessions, session)
        tx2   == InsertSessionChecks(tx1, session)
        index == session.CreateIndex
        tx3   == SetMaxLastIndexTxn(tx2, dbSessions, index)
        tx4   == SetMaxLastIndexTxn(tx3, dbSessionChecks, index)
    IN  IF f = InsertFault(dbSessions) THEN Aborted(TRUE, {})
        ELSE IF session.Checks # <<>> /\ f = InsertFault(dbSessionChecks)
        THEN Aborted(TRUE, {})
        ELSE IF f = IndexFault(dbSessions) THEN Aborted(TRUE, {})
        ELSE IF f = IndexFault(dbSessionChecks) THEN Aborted(TRUE, {dbSessions})
        ELSE IF f = CommitFault THEN CommitFailed(FALSE, {dbSessions, dbSessionChecks})
        ELSE Committed(tx4, {dbSessions, dbSessionChecks},
                       {dbSessions, dbSessionChecks})

SessionRestore(session, f) ==
    Write("SessionRestore", [session |-> session],
          SessionRestoreTxn(db, session, f))

----------------------------------------------------------------------------
(* Watch *)

\* StateStore.Watch, state_store.go:307-311
Watch(tables, ch) ==
    /\ watch' = WatchTables(watch, tables, ch)
    /\ ret' = [op |-> "Watch", args |-> [tables |-> tables, ch |-> ch], err |-> FALSE, ok |-> TRUE, notified |-> {},
               touched |-> {}, sig |-> NoSignals]
    /\ UNCHANGED <<db, hung, snap, rd>>

----------------------------------------------------------------------------
(* Snapshots *)

\* what a call that writes nothing leaves in `ret`
Returned(op, args) ==
    [op |-> op, args |-> args, err |-> FALSE, ok |-> TRUE, notified |-> {},
     touched |-> {}, sig |-> NoSignals]

NoSnapshot == [open |-> FALSE, tx |-> EmptyStore, lastIndex |-> 0]

\* StateStore.Snapshot, state_store.go:1216-1237: a read transaction on all
\* tables and the maximum watermark seen through it
Snapshot ==
    /\ ~snap.open
    /\ LET tx == StartTxn(db)
       IN  snap' = [open |-> TRUE, tx |-> tx, lastIndex |-> LastIndexTxn(tx, Tables)]
    /\ ret' = Returned("Snapshot", <<>>)
    /\ UNCHANGED <<db, watch, hung, rd>>

\* StateSnapshot.Close, state_store.go:66-69
SnapshotClose ==
    /\ snap.open
    /\ snap' = NoSnapshot
    /\ ret' = Returned("Close", <<>>)
    /\ UNCHANGED <<db, watch, hung, rd>>

\* parseNodeServices returning index 0 when the node is not found
parseNodeServices_ZeroWhenMissing(tables, tx, name) ==
    LET index == LastIndexTxn(tx, tables)
        res   == GetTxn(tx, dbNodes, "id", <<name>>)
        svc   == GetTxn(tx, dbServices, "id", <<name>>)
        srv(id) == LET service == CHOOSE r \in svc : r.ServiceID = id
                   IN  [ID |-> service.ServiceID, Service |-> service.ServiceName,
                        Tags |-> service.ServiceTags, Port |-> service.ServicePort]
    IN  IF res = {} THEN [index |-> 0, ns |-> {}]
        ELSE [index |-> index,
              ns |-> {[Node |-> First(res),
                       Services |-> [id \in {r.ServiceID : r \in svc} |-> srv(id)]]}]

\* parseNodeServices, state_store.go:415-457: the group's watermark and the
\* NodeServices of the node, as a set that is empty when the result is nil
parseNodeServices(tables, tx, name) ==
    LET index == LastIndexTxn(tx, tables)
        res   == GetTxn(tx, dbNodes, "id", <<name>>)
        svc   == GetTxn(tx, dbServices, "id", <<name>>)
        srv(id) == LET service == CHOOSE r \in svc : r.ServiceID = id
                   IN  [ID |-> service.ServiceID, Service |-> service.ServiceName,
                        Tags |-> service.ServiceTags, Port |-> service.ServicePort]
    IN  [index |-> index,
         ns |-> IF res = {} THEN {}
                ELSE {[Node |-> First(res),
                       Services |-> [id \in {r.ServiceID : r \in svc} |-> srv(id)]]}]

\* StateSnapshot.LastIndex, state_store.go:1240-1242
SnapshotLastIndex(store, s) == s.lastIndex

\* StateSnapshot.Nodes reading the store instead of the snapshot's transaction
SnapshotNodes_Live(store, s) == GetTxn(StartTxn(store), dbNodes, "id", <<>>)

\* StateSnapshot.Nodes, state_store.go:1246-1257; `store` is s.store
SnapshotNodes(store, s) == GetTxn(s.tx, dbNodes, "id", <<>>)

\* StateSnapshot.NodeServices, state_store.go:1260-1263
SnapshotNodeServices(store, s, name) == parseNodeServices(Tables, s.tx, name).ns

\* StateSnapshot.NodeChecks, state_store.go:1266-1270
SnapshotNodeChecks(store, s, node) == GetTxn(s.tx, dbChecks, "id", <<node>>)

\* StateSnapshot.KVSDump, state_store.go:1275-1277
SnapshotKVSDump(store, s) == GetTxn(s.tx, dbKVS, "id", <<>>)

----------------------------------------------------------------------------
(* Read queries *)

\* StateStore.queryTables, state_store.go:288-302
queryTables ==
    [q \in {"Nodes", "Services", "ServiceNodes", "NodeServices", "ChecksInState",
            "NodeChecks", "ServiceChecks", "CheckServiceNodes", "NodeInfo",
            "NodeDump", "KVSGet", "KVSList", "KVSListKeys"} |->
        CASE q = "Nodes" -> {dbNodes}
          [] q = "Services" -> {dbServices}
          [] q \in {"ServiceNodes", "NodeServices"} -> {dbNodes, dbServices}
          [] q \in {"ChecksInState", "NodeChecks", "ServiceChecks"} -> {dbChecks}
          [] q \in {"CheckServiceNodes", "NodeInfo", "NodeDump"} ->
                {dbNodes, dbServices, dbChecks}
          [] q \in {"KVSGet", "KVSList", "KVSListKeys"} -> {dbKVS}]

\* MDBTable.Get: one lookup in a read transaction of its own, with the
\* table's watermark
Get(store, t, index, parts) ==
    LET tx == StartTxn(store)
    IN  [index |-> LastIndexTxn(tx, {t}), res |-> GetTxn(tx, t, index, parts)]

\* StateStore.GetNode, state_store.go:338-349
GetNode(store, name) ==
    LET got == Get(store, dbNodes, "id", <<name>>)
    IN  IF got.res = {}
        THEN [index |-> got.index, found |-> FALSE, addr |-> ""]
        ELSE [index |-> got.index, found |-> TRUE, addr |-> First(got.res).Address]

\* parseHealthChecks, state_store.go:710-720
parseHealthChecks(got) == [index |-> got.index, res |-> got.res]

\* StateStore.NodeChecks, state_store.go:694-696
NodeChecks(store, node) == parseHealthChecks(Get(store, dbChecks, "id", <<node>>))

\* StateStore.NodeServices, state_store.go:403-412
NodeServices(store, tx, name) ==
    parseNodeServices(queryTables["NodeServices"], tx, name)

\* StateStore.Nodes, state_store.go:352-362
Nodes(store) == Get(store, dbNodes, "id", <<>>)

\* StateStore.Services, state_store.go:524-546: service name -> tags
Services(store) ==
    LET got == Get(store, dbServices, "id", <<>>)
    IN  [index |-> got.index,
         res   |-> [name \in {srv.ServiceName : srv \in got.res} |->
                       UNION {srv.ServiceTags : srv \in
                                 {r \in got.res : r.ServiceName = name}}]]

\* StateStore.ServiceChecks, state_store.go:699-701
ServiceChecks(store, service) ==
    parseHealthChecks(Get(store, dbChecks, "service", <<service>>))

\* StateStore.ChecksInState, state_store.go:704-706
ChecksInState(store, state) ==
    parseHealthChecks(Get(store, dbChecks, "status", <<state>>))

\* StateStore.KVSGet, state_store.go:940-947: the entry as a set of at most one
KVSGet(store, key) == Get(store, dbKVS, "id", <<key>>)

\* StateStore.KVSList, state_store.go:950-957
KVSList(store, prefix) == Get(store, dbKVS, "id_prefix", <<prefix>>)

\* the zero ServiceNode / CheckServiceNode left in the result when the join
\* with the nodes table fails (`continue` at 612-615 and 773-776)
ZeroServiceNode ==
    [Node |-> "", Address |-> "", ServiceID |-> "", ServiceName |-> "",
     ServiceTags |-> {}, ServicePort |-> 0]

ZeroCheckServiceNode ==
    [Node |-> [Node |-> "", Address |-> ""],
     Service |-> [ID |-> "", Service |-> "", Tags |-> {}, Port |-> 0],
     Checks |-> <<>>]

\* parseServiceNodes, state_store.go:601-623
parseServiceNodes(tx, table, res) ==
    {LET nodeRes == GetTxn(tx, table, "id", <<srv.Node>>)
     IN  IF Cardinality(nodeRes) # 1 THEN ZeroServiceNode
         ELSE [Node |-> srv.Node, Address |-> First(nodeRes).Address,
               ServiceID |-> srv.ServiceID, ServiceName |-> srv.ServiceName,
               ServiceTags |-> srv.ServiceTags, ServicePort |-> srv.ServicePort] :
     srv \in res}

\* ServiceNodes taking the watermark from the store, outside its transaction
ServiceNodes_IndexOutsideTxn(store, tx, service) ==
    [index |-> LastIndexTxn(StartTxn(store), queryTables["ServiceNodes"]),
     res   |-> parseServiceNodes(tx, dbNodes,
                                 GetTxn(tx, dbServices, "service", <<service>>))]

\* StateStore.ServiceNodes, state_store.go:549-564, from LastIndexTxn on;
\* `store` is the receiver, `tx` the transaction StartTxn returned
ServiceNodes(store, tx, service) ==
    [index |-> LastIndexTxn(tx, queryTables["ServiceNodes"]),
     res   |-> parseServiceNodes(tx, dbNodes,
                                 GetTxn(tx, dbServices, "service", <<service>>))]

\* the rows GetTxn found, as the slice it returns: each row once, in the
\* order of the index
RECURSIVE ListOf(_)
ListOf(res) ==
    IF res = {} THEN <<>>
    ELSE LET r == First(res) IN <<r>> \o ListOf(res \ {r})

\* serviceTagFilter, state_store.go:587-598: the loop from position i with
\* n entries of l still kept (positions counted from 1)
RECURSIVE serviceTagFilterFrom(_, _, _, _)
serviceTagFilterFrom(l, tag, i, n) ==
    IF i > n THEN SubSeq(l, 1, n)
    ELSE IF tag \in l[i].ServiceTags
         THEN serviceTagFilterFrom(l, tag, i + 1, n)
         ELSE serviceTagFilterFrom([l EXCEPT ![i] = l[n]], tag, i, n - 1)

\* serviceTagFilter, state_store.go:587-598
serviceTagFilter(l, tag) == serviceTagFilterFrom(l, tag, 1, Len(l))

\* parseCheckServiceNodes listing every check of the node under each service
parseCheckServiceNodes_AllNodeChecks(tx, res) ==
    [i \in 1 .. Len(res) |->
        LET srv == res[i]
            nodeRes == GetTxn(tx, dbNodes, "id", <<srv.Node>>)
        IN  IF Cardinality(nodeRes) # 1 THEN ZeroCheckServiceNode
            ELSE [Node |-> First(nodeRes),
                  Service |-> [ID |-> srv.ServiceID, Service |-> srv.ServiceName,
                               Tags |-> srv.ServiceTags, Port |-> srv.ServicePort],
                  Checks |-> ListOf(GetTxn(tx, dbChecks, "id", <<srv.Node>>))]]

\* parseCheckServiceNodes, state_store.go:762-800: `res` is the slice of
\* services rows, the result has one entry per position of it
parseCheckServiceNodes(tx, res) ==
    [i \in 1 .. Len(res) |->
        LET srv == res[i]
            nodeRes == GetTxn(tx, dbNodes, "id", <<srv.Node>>)
            checks  == ListOf(GetTxn(tx, dbChecks, "node",
                                     <<srv.Node, srv.ServiceID>>))
            nodeChecks == ListOf(GetTxn(tx, dbChecks, "node", <<srv.Node, "">>))
        IN  IF Cardinality(nodeRes) # 1 THEN ZeroCheckServiceNode
            ELSE [Node |-> First(nodeRes),
                  Service |-> [ID |-> srv.ServiceID, Service |-> srv.ServiceName,
                               Tags |-> srv.ServiceTags, Port |-> srv.ServicePort],
                  Checks |-> checks \o nodeChecks]]

\* StateStore.CheckServiceNodes, state_store.go:724-739, from LastIndexTxn on
CheckServiceNodes(store, tx, service) ==
    [index |-> LastIndexTxn(tx, queryTables["CheckServiceNodes"]),
     res   |-> parseCheckServiceNodes(tx, ListOf(GetTxn(tx, dbServices, "service",
                                                        <<service>>)))]

\* StateStore.CheckServiceTagNodes, state_store.go:743-759, from LastIndexTxn
\* on
CheckServiceTagNodes(store, tx, service, tag) ==
    [index |-> LastIndexTxn(tx, queryTables["CheckServiceNodes"]),
     res   |-> parseCheckServiceNodes(tx,
                  serviceTagFilter(ListOf(GetTxn(tx, dbServices, "service",
                                                 <<service>>)), tag))]

\* parseNodeInfo reading the services through a transaction of its own
parseNodeInfo_OwnTxn(store, tx, res) ==
    {[Node |-> node.Node, Address |-> node.Address,
      Services |-> {[ID |-> service.ServiceID, Service |-> service.ServiceName,
                     Tags |-> service.ServiceTags, Port |-> service.ServicePort] :
                    service \in GetTxn(StartTxn(store), dbServices, "id",
                                       <<node.Node>>)},
      Checks |-> GetTxn(tx, dbChecks, "node", <<node.Node>>)] :
     node \in res}

\* parseNodeInfo, state_store.go:841-888; `store` is the receiver
parseNodeInfo(store, tx, res) ==
    {[Node |-> node.Node, Address |-> node.Address,
      Services |-> {[ID |-> service.ServiceID, Service |-> service.ServiceName,
                     Tags |-> service.ServiceTags, Port |-> service.ServicePort] :
                    service \in GetTxn(tx, dbServices, "id", <<node.Node>>)},
      Checks |-> GetTxn(tx, dbChecks, "node", <<node.Node>>)] :
     node \in res}

\* StateStore.NodeInfo, state_store.go:803-818, from LastIndexTxn on
NodeInfo(store, tx, node) ==
    [index |-> LastIndexTxn(tx, queryTables["NodeInfo"]),
     res   |-> parseNodeInfo(store, tx, GetTxn(tx, dbNodes, "id", <<node>>))]

\* StateStore.NodeDump, state_store.go:822-837, from LastIndexTxn on
NodeDump(store, tx) ==
    [index |-> LastIndexTxn(tx, queryTables["NodeDump"]),
     res   |-> parseNodeInfo(store, tx, GetTxn(tx, dbNodes, "id", <<>>))]

\* what query q returns when it reads through tx
Query(q, store, tx, arg) ==
    CASE q = "ServiceNodes"      -> ServiceNodes(store, tx, arg)
      [] q = "CheckServiceNodes" -> CheckServiceNodes(store, tx, arg)
      [] q = "CheckServiceTagNodes" ->
            CheckServiceTagNodes(store, tx, arg[1], arg[2])
      [] q = "NodeInfo"          -> NodeInfo(store, tx, arg)
      [] q = "NodeDump"          -> NodeDump(store, tx)
      [] q = "NodeServices"      ->
            LET out == NodeServices(store, tx, arg)
            IN  [index |-> out.index, res |-> out.ns]

\* what a query that is one MDBTable.Get returns
Lookup(q, store, arg) ==
    CASE q = "GetNode" ->
            LET out == GetNode(store, arg)
            IN  [index |-> out.index, res |-> [found |-> out.found, addr |-> out.addr]]
      [] q = "Nodes"         -> Nodes(store)
      [] q = "Services"      -> Services(store)
      [] q = "NodeChecks"    -> NodeChecks(store, arg)
      [] q = "ServiceChecks" -> ServiceChecks(store, arg)
      [] q = "ChecksInState" -> ChecksInState(store, arg)
      [] q = "KVSGet"        -> KVSGet(store, arg)
      [] q = "KVSList"       -> KVSList(store, arg)

NoRead == [open |-> FALSE, q |-> "", arg |-> "", tx |-> EmptyStore]

\* the first statements of a query: tables.StartTxn(true) (e.g. 551-555)
ReadStart(q, arg) ==
    /\ ~rd.open
    /\ rd' = [open |-> TRUE, q |-> q, arg |-> arg, tx |-> StartTxn(db)]
    /\ UNCHANGED <<db, watch, ret, hung, snap>>

\* the rest of the query, up to its return and the deferred tx.Abort()
ReadFinish ==
    /\ rd.open
    /\ LET out == Query(rd.q, db, rd.tx, rd.arg)
       IN  ret' = [op |-> rd.q, args |-> [arg |-> rd.arg], err |-> FALSE,
                   ok |-> TRUE, notified |-> {}, touched |-> {},
                   sig |-> NoSignals, index |-> out.index, res |-> out.res]
    /\ rd' = NoRead
    /\ UNCHANGED <<db, watch, hung, snap>>

\* a call of a query that is one MDBTable.Get
Read(q, arg) ==
    /\ ~hung
    /\ LET out == Lookup(q, db, arg)
       IN  ret' = [op |-> q, args |-> [arg |-> arg], err |-> FALSE,
                   ok |-> TRUE, notified |-> {}, touched |-> {},
                   sig |-> NoSignals, index |-> out.index, res |-> out.res]
    /\ UNCHANGED <<db, watch, hung, snap, rd>>

----------------------------------------------------------------------------
(* Key listing *)

\* the bytes keys are made of, in byte order
Alphabet == <<"/", "a", "b">>

Ord(c) == CHOOSE i \in 1 .. Len(Alphabet) : Alphabet[i] = c

\* byte-wise order of two keys
KeyLess(a, b) ==
    \E j \in 1 .. Len(b) :
        /\ j <= Len(a) + 1
        /\ \A i \in 1 .. (j - 1) : a[i] = b[i]
        /\ j = Len(a) + 1 \/ Ord(a[j]) < Ord(b[j])

RECURSIVE SortByKey(_)
SortByKey(rows) ==
    IF rows = {} THEN <<>>
    ELSE LET r == CHOOSE x \in rows : \A o \in rows \ {x} : KeyLess(x.Key, o.Key)
         IN  <<r>> \o SortByKey(rows \ {r})

\* MDBTable.StreamTxn(stream, tx, index, parts...): the matching rows in
\* ascending key order
StreamTxn(tx, t, index, parts) == SortByKey(GetTxn(tx, t, index, parts))

\* strings.Index: the offset of the first occurrence of sep in s, or -1
Index(s, sep) ==
    LET at == {i \in 0 .. (Len(s) - Len(sep)) : SubSeq(s, i + 1, i + Len(sep)) = sep}
    IN  IF at = {} THEN -1 ELSE CHOOSE i \in at : \A o \in at : i <= o

\* the aggregation without the comparison with `last`
RECURSIVE Aggregate_NoLast(_, _, _, _, _)
Aggregate_NoLast(stream, prefixLen, seperator, keys, last) ==
    IF stream = <<>> THEN keys
    ELSE LET ent   == Head(stream)
             after == SubSeq(ent.Key, prefixLen + 1, Len(ent.Key))
             idx   == Index(after, seperator)
             toSep == SubSeq(ent.Key, 1, prefixLen + idx + Len(seperator))
         IN  IF Len(seperator) = 0 \/ idx < 0
             THEN Aggregate_NoLast(Tail(stream), prefixLen, seperator,
                                   Append(keys, ent.Key), last)
             ELSE Aggregate_NoLast(Tail(stream), prefixLen, seperator,
                                   Append(keys, toSep), toSep)

\* the goroutine of KVSListKeys, state_store.go:975-999: `keys` and `last`
\* after the rest of the stream has been received
RECURSIVE Aggregate(_, _, _, _, _)
Aggregate(stream, prefixLen, seperator, keys, last) ==
    IF stream = <<>> THEN keys
    ELSE LET ent   == Head(stream)
             after == SubSeq(ent.Key, prefixLen + 1, Len(ent.Key))
             idx   == Index(after, seperator)
             toSep == SubSeq(ent.Key, 1, prefixLen + idx + Len(seperator))
         IN  IF Len(seperator) = 0
             THEN Aggregate(Tail(stream), prefixLen, seperator,
                            Append(keys, ent.Key), last)
             ELSE IF idx >= 0
             THEN IF last # toSep
                  THEN Aggregate(Tail(stream), prefixLen, seperator,
                                 Append(keys, toSep), toSep)
                  ELSE Aggregate(Tail(stream), prefixLen, seperator, keys, last)
             ELSE Aggregate(Tail(stream), prefixLen, seperator,
                            Append(keys, ent.Key), last)

\* StateStore.KVSListKeys, state_store.go:960-1008
KVSListKeys(store, prefix, seperator) ==
    LET tx     == StartTxn(store)
        idx    == LastIndexTxn(tx, {dbKVS})
        stream == StreamTxn(tx, dbKVS, "id_prefix", <<prefix>>)
    IN  [index |-> idx, res |-> Aggregate(stream, Len(prefix), seperator, <<>>, <<>>)]

\* a call of KVSListKeys
ListKeys(prefix, seperator) ==
    /\ ~hung
    /\ LET out == KVSListKeys(db, prefix, seperator)
       IN  ret' = [op |-> "KVSListKeys",
                   args |-> [prefix |-> prefix, seperator |-> seperator],
                   err |-> FALSE, ok |-> TRUE, notified |-> {}, touched |-> {},
                   sig |-> NoSignals, index |-> out.index, res |-> out.res]
    /\ UNCHANGED <<db, watch, hung, snap, rd>>

----------------------------------------------------------------------------
(* Initial state: NewStateStore, state_store.go:72-99, 274-285 *)

Init ==
    /\ db = EmptyStore
    /\ watch = [t \in Tables |-> {}]
    /\ ret = [op |-> "NewStateStore", args |-> <<>>, err |-> FALSE, ok |-> TRUE, notified |-> {},
              touched |-> {}, sig |-> NoSignals]
    /\ hung = FALSE
    /\ snap = NoSnapshot
    /\ rd = NoRead

----------------------------------------------------------------------------
(* The KV store on its own *)

\* DirEntry arguments: KVSSet overwrites both indexes, KVSCheckAndSet reads
\* ModifyIndex, a restored entry carries its own indexes
SetEntries ==
    [Key : Keys, Value : Values, CreateIndex : {0}, ModifyIndex : {0}]

CasEntries ==
    [Key : Keys, Value : Values, CreateIndex : {0}, ModifyIndex : Indexes]

RestoredEntries ==
    {d \in [Key : Keys, Value : Values, CreateIndex : Indexes, ModifyIndex : Indexes] :
        d.CreateIndex <= d.ModifyIndex}

KVFaults == {NoFault, CommitFault}

NextKV ==
    \/ \E i \in CallIndexes, d \in SetEntries : KVSSet(i, d, NoFault)
    \/ \E i \in CallIndexes, d \in CasEntries, f \in KVFaults : KVSCheckAndSet(i, d, f)
    \/ \E i \in CallIndexes, k \in Keys : KVSDelete(i, k, NoFault)
    \/ \E i \in CallIndexes, p \in Prefixes : KVSDeleteTree(i, p, NoFault)
    \/ \E d \in RestoredEntries : KVSRestore(d, NoFault)
    \/ \E ch \in Chans : Watch({dbKVS}, ch)

SpecKV == Init /\ [][NextKV]_vars

----------------------------------------------------------------------------
(* Every write method, on one node, one service, one check, one key and   *)
(* one session                                                             *)

Node1 == [Node |-> "n1", Address |-> "10.0.0.1"]

Web1 == [ID |-> "s1", Service |-> "web", Tags |-> {"t1"}, Port |-> 80]

Check1 ==
    [Node |-> "n1", CheckID |-> "c1", Status |-> HealthPassing,
     ServiceID |-> "", ServiceName |-> ""]

Entry1 == [Key |-> <<"a">>, Value |-> "v1", CreateIndex |-> 0, ModifyIndex |-> 0]

Session1 == [ID |-> "", Node |-> "n1", Checks |-> <<"c1">>, CreateIndex |-> 0]

\* The KV methods open only the kvs table (lines 891-1092) and the catalog
\* and session methods never open it (lines 319-691, 1096-1213): a run is
\* explored as a run of one family from the empty store.
KVUntouched == db.rows[dbKVS] = {} /\ db.idx[dbKVS] = 0

CatalogUntouched ==
    \A t \in Tables \ {dbKVS} : db.rows[t] = {} /\ db.idx[t] = 0

NextWrites ==
    \/ \E i \in CallIndexes : KVUntouched /\ EnsureNode(i, Node1, NoFault)
    \/ \E i \in CallIndexes : KVUntouched /\ EnsureService(i, "n1", Web1, NoFault)
    \/ \E i \in CallIndexes : KVUntouched /\ EnsureCheck(i, Check1, NoFault)
    \/ \E i \in CallIndexes :
          KVUntouched /\ DeleteNodeService(i, "n1", "s1", NoFault)
    \/ \E i \in CallIndexes : KVUntouched /\ DeleteNode(i, "n1", NoFault)
    \/ \E i \in CallIndexes : KVUntouched /\ DeleteNodeCheck(i, "n1", "c1", NoFault)
    \/ \E i \in CallIndexes :
          KVUntouched /\ SessionCreate(i, Session1, "id1", NoFault)
    \/ \E i \in CallIndexes :
          /\ KVUntouched
          /\ SessionRestore([Session1 EXCEPT !.ID = "id2", !.CreateIndex = i],
                            NoFault)
    \/ \E i \in CallIndexes : CatalogUntouched /\ KVSSet(i, Entry1, NoFault)
    \/ \E i \in CallIndexes : CatalogUntouched /\ KVSCheckAndSet(i, Entry1, NoFault)
    \/ \E i \in CallIndexes : CatalogUntouched /\ KVSDelete(i, <<"a">>, NoFault)
    \/ \E i \in CallIndexes : CatalogUntouched /\ KVSDeleteTree(i, <<>>, NoFault)
    \/ \E i \in CallIndexes :
          /\ CatalogUntouched
          /\ KVSRestore([Entry1 EXCEPT !.CreateIndex = i, !.ModifyIndex = i],
                        NoFault)

SpecWrites == Init /\ [][NextWrites]_vars

----------------------------------------------------------------------------
(* Watchers and the writes that wake them *)

\* a check of service s1 on node n1
WebCheck1 == [Check1 EXCEPT !.ServiceID = "s1"]

\* one single-table group and the group of CheckServiceNodes (line 290)
WatchGroups == {{dbKVS}, {dbNodes, dbServices, dbChecks}}

NextWatch ==
    \/ \E i \in CallIndexes : EnsureNode(i, Node1, NoFault)
    \/ \E i \in CallIndexes : EnsureService(i, "n1", Web1, NoFault)
    \/ \E i \in CallIndexes : EnsureCheck(i, WebCheck1, NoFault)
    \/ \E i \in CallIndexes : DeleteNodeService(i, "n1", "s1", NoFault)
    \/ \E i \in CallIndexes : DeleteNode(i, "n1", NoFault)
    \/ \E i \in CallIndexes : DeleteNodeCheck(i, "n1", "c1", NoFault)
    \/ KVSSet(1, Entry1, NoFault)
    \/ KVSRestore([Entry1 EXCEPT !.CreateIndex = 1, !.ModifyIndex = 1], NoFault)
    \/ \E g \in WatchGroups, ch \in Chans : Watch(g, ch)

SpecWatch == Init /\ [][NextWatch]_vars

----------------------------------------------------------------------------
(* The catalog and sessions with failing storage calls *)

\* storage calls that return an error: the commit of any write, the
\* deletion of checks after the services were processed, and the second
\* watermark update of SessionCreate
CommitFaults == {NoFault, CommitFault}

DeleteFaults == CommitFaults \cup {DeleteFault(dbChecks)}

SessionFaults == CommitFaults \cup {IndexFault(dbSessionChecks)}

NextCatalog ==
    \/ \E i \in CallIndexes, f \in CommitFaults : EnsureNode(i, Node1, f)
    \/ \E i \in CallIndexes, f \in CommitFaults : EnsureService(i, "n1", Web1, f)
    \/ \E i \in CallIndexes, f \in CommitFaults : EnsureCheck(i, WebCheck1, f)
    \/ \E i \in CallIndexes, f \in DeleteFaults :
          DeleteNodeService(i, "n1", "s1", f)
    \/ \E i \in CallIndexes, f \in DeleteFaults : DeleteNode(i, "n1", f)
    \/ \E i \in CallIndexes, f \in CommitFaults :
          DeleteNodeCheck(i, "n1", "c1", f)
    \/ \E f \in SessionFaults : SessionCreate(MaxIndex, Session1, "id1", f)
    \/ \E ch \in Chans : Watch({dbNodes, dbServices, dbChecks}, ch)

SpecCatalog == Init /\ [][NextCatalog]_vars

----------------------------------------------------------------------------
(* A snapshot and the writes that go on while it is open *)

\* the consensus layer applies the log in order: a call carries an index
\* that no table's watermark exceeds (design document 5)
InOrder(i) == \A t \in Tables : db.idx[t] <= i

NextSnap ==
    \/ \E i \in CallIndexes : InOrder(i) /\ EnsureNode(i, Node1, NoFault)
    \/ \E i \in CallIndexes : InOrder(i) /\ EnsureService(i, "n1", Web1, NoFault)
    \/ \E i \in CallIndexes : InOrder(i) /\ EnsureCheck(i, Check1, NoFault)
    \/ \E i \in CallIndexes : InOrder(i) /\ DeleteNode(i, "n1", NoFault)
    \/ \E i \in CallIndexes : InOrder(i) /\ KVSSet(i, Entry1, NoFault)
    \/ Snapshot
    \/ SnapshotClose

SpecSnap == Init /\ [][NextSnap]_vars

----------------------------------------------------------------------------
(* A NodeInfo query and the multi-table writes that go on meanwhile *)

NextRead ==
    \/ \E i \in CallIndexes : InOrder(i) /\ EnsureNode(i, Node1, NoFault)
    \/ \E i \in CallIndexes : InOrder(i) /\ EnsureService(i, "n1", Web1, NoFault)
    \/ \E i \in CallIndexes : InOrder(i) /\ EnsureCheck(i, WebCheck1, NoFault)
    \/ \E i \in CallIndexes, f \in DeleteFaults :
          InOrder(i) /\ DeleteNodeService(i, "n1", "s1", f)
    \/ \E i \in CallIndexes, f \in DeleteFaults :
          InOrder(i) /\ DeleteNode(i, "n1", f)
    \/ \E i \in CallIndexes, f \in SessionFaults :
          InOrder(i) /\ SessionCreate(i, Session1, "id1", f)
    \/ ReadStart("NodeInfo", "n1")
    \/ ReadFinish

SpecRead == Init /\ [][NextRead]_vars

----------------------------------------------------------------------------
(* Service queries and the catalog writes that go on meanwhile *)

NextQuery ==
    \/ \E i \in CallIndexes : InOrder(i) /\ EnsureNode(i, Node1, NoFault)
    \/ \E i \in CallIndexes : InOrder(i) /\ EnsureService(i, "n1", Web1, NoFault)
    \/ \E i \in CallIndexes : InOrder(i) /\ EnsureCheck(i, WebCheck1, NoFault)
    \/ \E i \in CallIndexes : InOrder(i) /\ DeleteNode(i, "n1", NoFault)
    \/ \E q \in {"ServiceNodes", "CheckServiceNodes"} : ReadStart(q, "web")
    \/ ReadFinish

SpecQuery == Init /\ [][NextQuery]_vars

----------------------------------------------------------------------------
(* One node with two services and their checks *)

Api1 == [ID |-> "s1", Service |-> "api", Tags |-> {}, Port |-> 8080]

Db2 == [ID |-> "s2", Service |-> "db", Tags |-> {"t1"}, Port |-> 5432]

DbCheck2 ==
    [Node |-> "n1", CheckID |-> "c2", Status |-> HealthCritical,
     ServiceID |-> "s2", ServiceName |-> ""]

NextServices ==
    \/ \E i \in CallIndexes :
           EnsureNode(i, Node1, NoFault)
    \/ \E i \in CallIndexes, ns \in {Web1, Api1, Db2} :
           EnsureService(i, "n1", ns, NoFault)
    \/ \E i \in CallIndexes, c \in {Check1, WebCheck1, DbCheck2} :
           EnsureCheck(i, c, NoFault)
    \/ \E i \in CallIndexes, id \in {"s1", "s2"} :
           DeleteNodeService(i, "n1", id, NoFault)

SpecServices == Init /\ [][NextServices]_vars

----------------------------------------------------------------------------
(* Two nodes, each with a service and a check *)

Node2 == [Node |-> "n2", Address |-> "10.0.0.2"]

Check2 == [Check1 EXCEPT !.Node = "n2"]

NextNodes ==
    \/ \E i \in CallIndexes, node \in {Node1, Node2} :
           EnsureNode(i, node, NoFault)
    \/ \E i \in CallIndexes, node \in {"n1", "n2"} :
           EnsureService(i, node, Web1, NoFault)
    \/ \E i \in CallIndexes, c \in {Check1, Check2} :
           EnsureCheck(i, c, NoFault)
    \/ \E i \in CallIndexes, node \in {"n1", "n2"} :
           DeleteNode(i, node, NoFault)

SpecNodes == Init /\ [][NextNodes]_vars

----------------------------------------------------------------------------
(* A tree of keys: a/, a/a, a/a/b, a/b and b *)

TreeKeys ==
    {<<"a", "/">>, <<"a", "/", "a">>, <<"a", "/", "a", "/", "b">>,
     <<"a", "/", "b">>, <<"b">>}

TreePrefixes == {<<>>, <<"a">>, <<"a", "/">>, <<"a", "/", "a">>, <<"b", "/">>}

Seperators == {<<>>, <<"/">>, <<"a">>, <<"/", "a">>}

NextTree ==
    \/ \E k \in TreeKeys : KVSSet(1, [Entry1 EXCEPT !.Key = k], NoFault)
    \/ \E i \in CallIndexes, k \in TreeKeys : KVSDelete(i, k, NoFault)
    \/ \E i \in CallIndexes, p \in TreePrefixes : KVSDeleteTree(i, p, NoFault)
    \/ \E p \in TreePrefixes, sep \in Seperators : ListKeys(p, sep)

SpecTree == Init /\ [][NextTree]_vars

----------------------------------------------------------------------------
(* Sessions created and restored on a node whose check changes state *)

HealthWarning == "warning"

CheckStates == {HealthPassing, HealthWarning, HealthCritical, ""}

\* the check lists of a session: none, c1, c1 twice, and c1 with a check
\* that is never registered
CheckLists == {<<>>, <<"c1">>, <<"c1", "c1">>, <<"c1", "c2">>}

\* the sessions given to SessionRestore
RestoredSessions ==
    {[Session1 EXCEPT !.ID = "id2", !.Checks = l, !.CreateIndex = i] :
        i \in CallIndexes, l \in CheckLists \ {<<"c1", "c2">>}}

NextSessions ==
    \/ EnsureNode(1, Node1, NoFault)
    \/ \E st \in CheckStates : EnsureCheck(1, [Check1 EXCEPT !.Status = st], NoFault)
    \/ DeleteNodeCheck(1, "n1", "c1", NoFault)
    \/ DeleteNode(1, "n1", NoFault)
    \/ \E i \in CallIndexes, l \in CheckLists :
          SessionCreate(i, [Session1 EXCEPT !.Checks = l], "id1", NoFault)
    \/ \E s \in RestoredSessions : SessionRestore(s, NoFault)

SpecSessions == Init /\ [][NextSessions]_vars

----------------------------------------------------------------------------
(* Every kind of read query, on names that are stored and names that are not *)

\* the arguments each single-lookup query is called with
LookupArgs ==
    [q \in {"GetNode", "Nodes", "Services", "NodeChecks", "ServiceChecks",
            "ChecksInState", "KVSGet", "KVSList"} |->
        CASE q \in {"GetNode", "NodeChecks"} -> {"n1", "n9"}
          [] q \in {"Nodes", "Services"}     -> {""}
          [] q = "ServiceChecks"             -> {"web", "none"}
          [] q = "ChecksInState"             -> {HealthPassing, HealthCritical}
          [] q \in {"KVSGet", "KVSList"}     -> {<<"a">>, <<"b">>}]

\* the arguments each query with a transaction over a table group is called with
QueryArgs ==
    [q \in {"NodeServices", "NodeDump"} |->
        IF q = "NodeServices" THEN {"n1", "n9"} ELSE {""}]

\* the catalog and the KV store are written in separate runs; single lookups
\* are made while no multi-table query is open
NextLookup ==
    \/ \E i \in CallIndexes :
          KVUntouched /\ InOrder(i) /\ EnsureNode(i, Node1, NoFault)
    \/ \E i \in CallIndexes :
          KVUntouched /\ InOrder(i) /\ EnsureService(i, "n1", Web1, NoFault)
    \/ \E i \in CallIndexes :
          KVUntouched /\ InOrder(i) /\ ~rd.open /\ EnsureCheck(i, WebCheck1, NoFault)
    \/ \E i \in CallIndexes :
          KVUntouched /\ InOrder(i) /\ DeleteNode(i, "n1", NoFault)
    \/ \E i \in CallIndexes :
          CatalogUntouched /\ InOrder(i) /\ ~rd.open /\ KVSSet(i, Entry1, NoFault)
    \/ \E q \in DOMAIN LookupArgs : \E arg \in LookupArgs[q] :
          ~rd.open /\ Read(q, arg)
    \/ \E q \in DOMAIN QueryArgs : \E arg \in QueryArgs[q] :
          KVUntouched /\ ReadStart(q, arg)
    \/ ReadFinish

SpecLookup == Init /\ [][NextLookup]_vars

----------------------------------------------------------------------------
(* Health of the instances of a service on two nodes *)

WebPlain == [ID |-> "s2", Service |-> "web", Tags |-> {}, Port |-> 81]

\* what is registered on node n1: service s1 is web with the tag, service s2
\* is web without it or db
HealthServices == {Web1, WebPlain, Db2}

\* check c1 is node-wide or of service s1, check c2 node-wide or of s2
HealthChecks ==
    {[Check1 EXCEPT !.Node = n, !.ServiceID = id] :
        n \in {"n1", "n2"}, id \in {"", "s1"}}
    \cup {[Check1 EXCEPT !.CheckID = "c2", !.ServiceID = id] : id \in {"", "s2"}}

HealthQueries ==
    {<<"CheckServiceNodes", "web">>, <<"CheckServiceNodes", "db">>,
     <<"CheckServiceTagNodes", <<"web", "t1">> >>}

NextHealth ==
    \/ \E node \in {Node1, Node2} :
           ~rd.open /\ EnsureNode(1, node, NoFault)
    \/ \E ns \in HealthServices :
           ~rd.open /\ EnsureService(1, "n1", ns, NoFault)
    \/ ~rd.open /\ EnsureService(1, "n2", Web1, NoFault)
    \/ \E c \in HealthChecks :
           ~rd.open /\ EnsureCheck(1, c, NoFault)
    \/ \E q \in HealthQueries : ReadStart(q[1], q[2])
    \/ ReadFinish

SpecHealth == Init /\ [][NextHealth]_vars

----------------------------------------------------------------------------
(* Registrations and deregistrations on two nodes *)

\* the services and checks registered: web (s1) and db (s2) on n1, web on
\* n2; check c1 node-wide or of s1 on either node, c2 of s2 on n1
CatalogServices == {<<"n1", Web1>>, <<"n1", Db2>>, <<"n2", Web1>>}

CatalogChecks ==
    {Check1, WebCheck1, DbCheck2, Check2, [Check2 EXCEPT !.ServiceID = "s1"]}

NextIntegrity ==
    \/ \E node \in {Node1, Node2} :
           ~rd.open /\ EnsureNode(1, node, NoFault)
    \/ \E s \in CatalogServices :
           ~rd.open /\ EnsureService(1, s[1], s[2], NoFault)
    \/ \E c \in CatalogChecks :
           ~rd.open /\ EnsureCheck(1, c, NoFault)
    \/ \E node \in {"n1", "n2"} :
           ~rd.open /\ DeleteNode(1, node, NoFault)
    \/ \E s \in CatalogServices :
           ~rd.open /\ DeleteNodeService(1, s[1], s[2].ID, NoFault)
    \/ \E c \in CatalogChecks :
           ~rd.open /\ DeleteNodeCheck(1, c.Node, c.CheckID, NoFault)
    \/ \E q \in {"ServiceNodes", "CheckServiceNodes"}, service \in {"web", "db"} :
           ReadStart(q, service)
    \/ ReadFinish

SpecIntegrity == Init /\ [][NextIntegrity]_vars

----------------------------------------------------------------------------
(* KV writes whose index arguments never decrease *)

\* the call with index i follows the calls made so far: no call had a
\* greater index
Later(i) == IF ret.op = "NewStateStore" THEN TRUE ELSE ret.args.index <= i

NextKVOrder ==
    \/ \E i \in CallIndexes, d \in SetEntries :
           Later(i) /\ KVSSet(i, d, NoFault)
    \/ \E i \in CallIndexes, d \in CasEntries, f \in KVFaults :
           Later(i) /\ KVSCheckAndSet(i, d, f)
    \/ \E i \in CallIndexes, k \in Keys :
           Later(i) /\ KVSDelete(i, k, NoFault)
    \/ \E i \in CallIndexes, p \in Prefixes :
           Later(i) /\ KVSDeleteTree(i, p, NoFault)

SpecKVOrder == Init /\ [][NextKVOrder]_vars

----------------------------------------------------------------------------
(* Checks registered in every form on a node whose service is renamed *)

\* checks c1 and c2 of node n1: with and without a Status, node-wide and of
\* service s1, with and without a ServiceName of the caller's
GivenChecks ==
    [Node : {"n1"}, CheckID : {"c1", "c2"},
     Status : {"", HealthPassing, HealthCritical},
     ServiceID : {"", "s1"}, ServiceName : {"", "bogus"}]

NextChecks ==
    \/ EnsureNode(1, Node1, NoFault)
    \/ \E ns \in {Web1, Api1} : EnsureService(1, "n1", ns, NoFault)
    \/ \E i \in CallIndexes, c \in GivenChecks : EnsureCheck(i, c, NoFault)
    \/ DeleteNodeService(1, "n1", "s1", NoFault)

SpecChecks == Init /\ [][NextChecks]_vars

----------------------------------------------------------------------------
(* Properties of the KV store *)

\* the entry stored under a key, as a set of at most one row
Stored(store, key) == {r \in store.rows[dbKVS] : r.Key = key}

\* the precondition of check-and-set as the claims state it
CasPrecondition(store, d) ==
    \/ d.ModifyIndex = 0 /\ Stored(store, d.Key) = {}
    \/ d.ModifyIndex > 0 /\ \E r \in Stored(store, d.Key) : r.ModifyIndex = d.ModifyIndex

\* C1: KVSCheckAndSet(index, d) returns true only if (d.ModifyIndex = 0 and no
\* entry is stored under d.Key) or (d.ModifyIndex > 0 and the stored entry has
\* that ModifyIndex), and whenever that holds and the call returns no error it
\* returns true; whatever the stored state and the attempted ModifyIndex.
C1_CasSucceedsIffPrecondition ==
    [][ret'.op = "KVSCheckAndSet" =>
          /\ ret'.ok => CasPrecondition(db, ret'.args.d)
          /\ (CasPrecondition(db, ret'.args.d) /\ ~ret'.err) => ret'.ok]_vars

\* a check-and-set with a positive ModifyIndex has succeeded on the only stored
\* key, which existed before (its CreateIndex is older than the write)
C1_Witness ==
    /\ ret.op = "KVSCheckAndSet" /\ ret.ok /\ ~ret.err
    /\ Cardinality(db.rows[dbKVS]) = 1
    /\ \A r \in db.rows[dbKVS] : r.CreateIndex < r.ModifyIndex

C3_CreateAndModifyIndex ==
    [][/\ (ret'.op \in {"KVSSet", "KVSCheckAndSet"} /\ ret'.ok /\ ~ret'.err) =>
             LET d == ret'.args.d
                 i == ret'.args.index
             IN  Stored(db', d.Key) =
                   {[d EXCEPT !.ModifyIndex = i,
                              !.CreateIndex = IF Stored(db, d.Key) = {} THEN i
                                              ELSE First(Stored(db, d.Key)).CreateIndex]}
       /\ ret'.op # "KVSRestore" =>
             \A r \in db.rows[dbKVS] : \A n \in Stored(db', r.Key) :
                 /\ n.CreateIndex = r.CreateIndex
                 /\ n = r \/ (ret'.op \in {"KVSSet", "KVSCheckAndSet"} /\ ret'.args.d.Key = r.Key)]_vars

\* a KVSSet has rewritten a key that was created at an earlier index, next to
\* another stored key
C3_Witness ==
    /\ ret.op = "KVSSet" /\ ~ret.err
    /\ Cardinality(db.rows[dbKVS]) = 2
    /\ \E r \in db.rows[dbKVS] : r.CreateIndex < r.ModifyIndex /\ r.ModifyIndex = db.idx[dbKVS]

----------------------------------------------------------------------------
(* Properties of the watermarks *)

Restores == {"KVSRestore", "SessionRestore"}

\* C4 as stated: no write call, whatever index it carries, leaves a table's
\* watermark lower than it was before the call.
C4_NeverLowered ==
    [][\A t \in Tables : db'.idx[t] >= db.idx[t]]_vars

\* C4, as the code has it: a call lowers a table's watermark only when it is
\* not a restore and carries an index below that watermark; so a call whose
\* index is at least the watermark of every table it writes, and every
\* restore, leaves no watermark lower.  A watermark that changes becomes the
\* index of the call (for SessionRestore, the maximum of the old watermark
\* and the session's CreateIndex) and belongs to a table the call wrote.
C4_LoweredOnlyByOlderIndex ==
    [][\A t \in Tables :
          /\ db'.idx[t] < db.idx[t] =>
                /\ ret'.op \notin Restores
                /\ ret'.args.index < db.idx[t]
          /\ db'.idx[t] # db.idx[t] =>
                /\ t \in ret'.touched
                /\ ret'.op # "KVSRestore"
                /\ db'.idx[t] = IF ret'.op = "SessionRestore"
                                THEN Max(db.idx[t], ret'.args.session.CreateIndex)
                                ELSE ret'.args.index]_vars

\* a session with CreateIndex 1 was restored after the sessions table had
\* reached watermark 2, and the watermark is still 2
C4_Witness ==
    /\ ret.op = "SessionRestore"
    /\ ~ret.err
    /\ ret.args.session.CreateIndex < db.idx[dbSessions]
    /\ \E r \in db.rows[dbSessions] : r.CreateIndex > ret.args.session.CreateIndex

----------------------------------------------------------------------------
(* Properties of Watch *)

WriteOps ==
    {"EnsureNode", "EnsureService", "EnsureCheck", "DeleteNodeService",
     "DeleteNode", "DeleteNodeCheck", "KVSSet", "KVSRestore", "KVSDelete",
     "KVSDeleteTree", "KVSCheckAndSet", "SessionCreate", "SessionRestore"}

\* the tables whose rows or watermark differ between two stores
Changed(old, new) ==
    {t \in Tables : new.rows[t] # old.rows[t] \/ new.idx[t] # old.idx[t]}

\* C5 as stated: a channel registered in a table that a committed write
\* writes is signaled exactly once by that write, and the registration is
\* one-shot: once signaled the channel waits on no table, so no later write
\* signals it unless Watch is called again.
C5_SignaledExactlyOnce ==
    [][(ret'.op \in WriteOps /\ ~ret'.err) =>
          \A ch \in Chans :
             /\ (\E t \in ret'.touched : ch \in watch[t]) => ret'.sig[ch] = 1
             /\ ret'.sig[ch] >= 1 => \A t \in Tables : ch \notin watch'[t]]_vars

\* C5, as the code has it: a committed write fires the NotifyGroup of each
\* table it wrote (KVSRestore fires none), every table it changed is one it
\* wrote, a channel is signaled once for each fired table it waits on - so
\* exactly once when it waits on exactly one of them - and it is removed
\* from the fired tables only: it keeps waiting on the other tables of its
\* group.
C5_SignaledOncePerWrittenTable ==
    [][(ret'.op \in WriteOps /\ ~ret'.err) =>
          /\ ret'.notified = IF ret'.op = "KVSRestore" THEN {} ELSE ret'.touched
          /\ Changed(db, db') \subseteq ret'.touched
          /\ \A ch \in Chans :
                ret'.sig[ch] = Cardinality({t \in ret'.notified : ch \in watch[t]})
          /\ \A t \in Tables :
                watch'[t] = IF t \in ret'.notified THEN {} ELSE watch[t]]_vars

\* DeleteNode removed the node, its service and its check while ch1 waited
\* on the three tables: ch1 was signaled three times
C5_Witness ==
    /\ ret.op = "DeleteNode"
    /\ ~ret.err
    /\ ret.touched = {dbNodes, dbServices, dbChecks}
    /\ ret.sig["ch1"] = 3

\* C20: a channel registered by Watch on a table misses no update: every
\* write call that changes the rows or the watermark of that table while the
\* channel is registered signals the channel, and a channel is signaled only
\* by a write that has committed
C20_WatcherMissesNoWrite ==
    [][
        (ret'.op \in WriteOps)
        => \A ch \in Chans :
              /\ (\E t \in Changed(db, db') : ch \in watch[t]) => ret'.sig[ch] >= 1
              /\ ret'.sig[ch] >= 1 => ~ret'.err
    ]_vars

\* C20, as the code has it: every write other than KVSRestore signals the
\* channels registered on a table it changes, and KVSRestore signals none
C20_OnlyRestoreIsMissed ==
    [][
        (ret'.op \in WriteOps /\ ~ret'.err)
        => \A ch \in Chans :
              IF ret'.op = "KVSRestore" THEN ret'.sig[ch] = 0
              ELSE (\E t \in Changed(db, db') : ch \in watch[t]) => ret'.sig[ch] >= 1
    ]_vars

\* KVSRestore has stored an entry in the kvs table, whose watermark is still
\* 0, and ch1, registered on kvs, was not signaled and is still waiting
C20_Witness ==
    /\ ret.op = "KVSRestore" /\ ~ret.err
    /\ ret.args.d \in db.rows[dbKVS]
    /\ db.idx[dbKVS] = 0
    /\ "ch1" \in watch[dbKVS]
    /\ ret.sig["ch1"] = 0

----------------------------------------------------------------------------
(* Properties of failing writes *)

\* C6 as stated: when a step of a write fails, no table row and no watermark
\* changes and no NotifyGroup is fired for any table.
C6_FailedWriteFiresNothing ==
    [][(ret'.op \in WriteOps /\ ret'.err /\ ~hung') =>
          /\ db' = db
          /\ ret'.notified = {}
          /\ watch' = watch]_vars

\* the part of C6 that the code keeps: a failed write stores nothing
C6_FailedWriteStoresNothing ==
    [][(ret'.op \in WriteOps /\ ret'.err /\ ~hung') => db' = db]_vars

\* DeleteNode failed on the checks table after it had processed the services
\* table: the service is still stored and ch1, waiting on services, was
\* signaled
C6_Witness ==
    /\ ret.op = "DeleteNode"
    /\ ret.err
    /\ db.rows[dbServices] # {}
    /\ ret.notified = {dbServices}
    /\ ret.sig["ch1"] = 1

\* the node a call refers to
NodeOf(call) ==
    CASE call.op = "EnsureService" -> call.args.node
      [] call.op = "EnsureCheck"   -> call.args.check.Node
      [] call.op = "SessionCreate" -> call.args.session.Node

\* the call is an EnsureCheck for a service the node does not have
ServiceMissing(store, call) ==
    /\ call.op = "EnsureCheck"
    /\ call.args.check.ServiceID # ""
    /\ ~\E r \in store.rows[dbServices] :
           r.Node = call.args.check.Node /\ r.ServiceID = call.args.check.ServiceID

\* C10: EnsureService, EnsureCheck and SessionCreate on a node that is not in
\* the nodes table, and EnsureCheck with a ServiceID the node has no service
\* for, return an error, store nothing, change no watermark and fire no
\* NotifyGroup: every waiting channel keeps waiting.
C10_MissingNodeOrServiceFails ==
    [][(/\ ret'.op \in {"EnsureService", "EnsureCheck", "SessionCreate"}
        /\ ~hung'
        /\ \/ ~\E n \in db.rows[dbNodes] : n.Node = NodeOf(ret')
           \/ ServiceMissing(db, ret')) =>
          /\ ret'.err
          /\ db' = db
          /\ ret'.notified = {}
          /\ ret'.sig = NoSignals
          /\ watch' = watch]_vars

\* EnsureService failed on a node that had been registered and deleted,
\* while a channel waited on the services table
C10_Witness ==
    /\ ret.op = "EnsureService"
    /\ ret.err
    /\ db.rows[dbNodes] = {}
    /\ db.idx[dbNodes] > 0
    /\ db.rows[dbServices] = {}
    /\ watch[dbServices] # {}

----------------------------------------------------------------------------
(* Properties of snapshots *)

NodeNames == {"n1"}

\* everything a StateSnapshot lets its holder observe
SnapshotView(store, s) ==
    [LastIndex    |-> SnapshotLastIndex(store, s),
     Nodes        |-> SnapshotNodes(store, s),
     NodeServices |-> [n \in NodeNames |-> SnapshotNodeServices(store, s, n)],
     NodeChecks   |-> [n \in NodeNames |-> SnapshotNodeChecks(store, s, n)],
     KVSDump      |-> SnapshotKVSDump(store, s)]

\* the same observations, read off the rows and watermarks of a store
StoreContents(store) ==
    LET services(n) == {r \in store.rows[dbServices] : r.Node = n}
        service(n, id) == CHOOSE r \in services(n) : r.ServiceID = id
    IN  [LastIndex    |-> CHOOSE m \in Indexes :
                             /\ \E t \in Tables : store.idx[t] = m
                             /\ \A t \in Tables : store.idx[t] <= m,
         Nodes        |-> store.rows[dbNodes],
         NodeServices |->
             [n \in NodeNames |->
                 {[Node |-> r,
                   Services |-> [id \in {x.ServiceID : x \in services(n)} |->
                                   [ID      |-> id,
                                    Service |-> service(n, id).ServiceName,
                                    Tags    |-> service(n, id).ServiceTags,
                                    Port    |-> service(n, id).ServicePort]]] :
                  r \in {x \in store.rows[dbNodes] : x.Node = n}}],
         NodeChecks   |-> [n \in NodeNames |->
                             {r \in store.rows[dbChecks] : r.Node = n}],
         KVSDump      |-> store.rows[dbKVS]]

\* C7: what a StateSnapshot shows is the content of the store at the moment
\* Snapshot() opened it and stays so until Close, whatever commits in
\* between; and writes go on committing while it is open: a write call can
\* always be made, and an EnsureNode or KVSSet made meanwhile returns
\* without error with its row and watermark in the store.
C7_SnapshotIsPointInTime ==
    /\ [](snap.open => ENABLED EnsureNode(MaxIndex, Node1, NoFault))
    /\ [][
           /\ (~snap.open /\ snap'.open) =>
                SnapshotView(db', snap') = StoreContents(db)
           /\ (snap.open /\ snap'.open) =>
                SnapshotView(db', snap') = SnapshotView(db, snap)
           /\ (snap.open /\ ret'.op = "EnsureNode") =>
                /\ ~ret'.err
                /\ ret'.args.node \in db'.rows[dbNodes]
                /\ db'.idx[dbNodes] = ret'.args.index
           /\ (snap.open /\ ret'.op = "KVSSet") =>
                /\ ~ret'.err
                /\ \E r \in db'.rows[dbKVS] :
                      r.Key = ret'.args.d.Key /\ r.ModifyIndex = ret'.args.index
                /\ db'.idx[dbKVS] = ret'.args.index]_vars

\* a snapshot opened on the empty catalog is still open after a node, its
\* service and check and a key were written: it shows none of them
C7_Witness ==
    /\ snap.open
    /\ ret.op \in WriteOps
    /\ SnapshotNodes(db, snap) = {}
    /\ SnapshotKVSDump(db, snap) = {}
    /\ SnapshotLastIndex(db, snap) < db.idx[dbNodes]
    /\ db.rows[dbNodes] # {}
    /\ db.rows[dbServices] # {}
    /\ db.rows[dbChecks] # {}
    /\ db.rows[dbKVS] # {}

----------------------------------------------------------------------------
(* Properties of read queries *)

\* the step is a write call that returned
WriteStep == ret'.op \in WriteOps /\ rd' = rd /\ snap' = snap /\ hung' = hung

\* store `new` is store `old` with all the changes of DeleteNode(i, n)
WholeDeleteNode(old, new, i, n) ==
    /\ \A t \in {dbNodes, dbServices, dbChecks} :
          /\ new.rows[t] = {r \in old.rows[t] : r.Node # n}
          /\ new.idx[t] = IF new.rows[t] # old.rows[t] THEN i ELSE old.idx[t]
    /\ Changed(old, new) \subseteq {dbNodes, dbServices, dbChecks}

\* ... of DeleteNodeService(i, n, id)
WholeDeleteNodeService(old, new, i, n, id) ==
    /\ new.rows[dbServices] =
          {r \in old.rows[dbServices] : ~(r.Node = n /\ r.ServiceID = id)}
    /\ new.rows[dbChecks] =
          {r \in old.rows[dbChecks] : ~(r.Node = n /\ r.ServiceID = id)}
    /\ \A t \in {dbServices, dbChecks} :
          new.idx[t] = IF new.rows[t] # old.rows[t] THEN i ELSE old.idx[t]
    /\ Changed(old, new) \subseteq {dbServices, dbChecks}

\* ... of SessionCreate(i, session) that drew the ID id
WholeSessionCreate(old, new, i, session, id) ==
    /\ new.rows[dbSessions] =
          old.rows[dbSessions] \cup {[session EXCEPT !.ID = id, !.CreateIndex = i]}
    /\ new.rows[dbSessionChecks] =
          old.rows[dbSessionChecks] \cup
             {[Node |-> session.Node, CheckID |-> session.Checks[k], Session |-> id] :
                k \in 1 .. Len(session.Checks)}
    /\ new.idx[dbSessions] = i
    /\ new.idx[dbSessionChecks] = i
    /\ Changed(old, new) \subseteq {dbSessions, dbSessionChecks}

\* C8: a read transaction opens on a committed store, what the query will
\* return does not change when a write commits meanwhile, and a DeleteNode,
\* DeleteNodeService or SessionCreate takes the committed store from one
\* with none of its changes to one with all of them, on every table it
\* writes (none at all when a step of it fails): no store a reader can open
\* holds part of such a write.
C8_NoPartialWrite ==
    [][
       /\ (~rd.open /\ rd'.open) => rd'.tx = db
       /\ (rd.open /\ rd'.open) =>
             Query(rd'.q, db', rd'.tx, rd'.arg) = Query(rd.q, db, rd.tx, rd.arg)
       /\ (WriteStep /\ ret'.err) => db' = db
       /\ (WriteStep /\ ~ret'.err /\ ret'.op = "DeleteNode") =>
             WholeDeleteNode(db, db', ret'.args.index, ret'.args.node)
       /\ (WriteStep /\ ~ret'.err /\ ret'.op = "DeleteNodeService") =>
             WholeDeleteNodeService(db, db', ret'.args.index, ret'.args.node,
                                    ret'.args.id)
       /\ (WriteStep /\ ~ret'.err /\ ret'.op = "SessionCreate") =>
             WholeSessionCreate(db, db', ret'.args.index, ret'.args.session,
                                ret'.args.id)
      ]_vars

\* DeleteNode removed n1, its service and its check while a NodeInfo query
\* was open: the query still returns the node with its service and check
C8_Witness ==
    /\ rd.open
    /\ ret.op = "DeleteNode"
    /\ ~ret.err
    /\ ret.touched = {dbNodes, dbServices, dbChecks}
    /\ \E info \in Query(rd.q, db, rd.tx, rd.arg).res :
          info.Services # {} /\ info.Checks # {}

\* the step is the return of the read query
ReadReturns == rd.open /\ ~rd'.open

\* C9 as stated: write calls arrive in index order, so when a query returns
\* W and no table of its group has a watermark above W, every write applied
\* to the group by then carried an index <= W, and the rows returned must be
\* the rows the query finds in the store.
C9_ReflectsEveryWriteUpToW ==
    [][ReadReturns =>
          (LastIndexTxn(db, queryTables[rd.q]) <= ret'.index =>
              ret'.res = Query(rd.q, db, StartTxn(db), rd.arg).res)]_vars

\* C9, as the code has it: the query returns the maximum watermark W of its
\* group and the rows as they were when its transaction opened, so it
\* reflects every write committed before that moment; a table of the group
\* written since then has a watermark >= W, and > W when the write carried
\* an index above every watermark of the store.  A write that commits while
\* the query runs is missed, and it can carry the index W itself when the
\* caller uses one index for several write calls.
C9_ReflectsWritesBeforeTheReadOpened ==
    [][
       /\ ReadReturns =>
             /\ ret'.index = LastIndexTxn(rd.tx, queryTables[rd.q])
             /\ ret'.res = Query(rd.q, rd.tx, rd.tx, rd.arg).res
             /\ \A t \in Changed(rd.tx, db) \cap queryTables[rd.q] :
                   db.idx[t] >= ret'.index
       /\ (/\ WriteStep
           /\ rd.open
           /\ Changed(db, db') \cap queryTables[rd.q] # {}
           /\ \A t \in Tables : db.idx[t] < ret'.args.index) =>
             LastIndexTxn(db', queryTables[rd.q]) >
                LastIndexTxn(rd.tx, queryTables[rd.q])
      ]_vars

\* ServiceNodes("web") returned no rows and a watermark below that of the
\* services table: the service was registered while the query ran
C9_Witness ==
    /\ ret.op = "ServiceNodes"
    /\ ret.res = {}
    /\ db.rows[dbServices] # {}
    /\ ret.index < db.idx[dbServices]

----------------------------------------------------------------------------
(* Properties of the catalog *)

\* the services rows of a store other than the row (node, id)
OtherServices(store, node, id) ==
    {r \in store.rows[dbServices] : ~(r.Node = node /\ r.ServiceID = id)}

\* C11: when EnsureService(i, node, s) succeeds, NodeServices(node) maps
\* s.ID to s, the services table holds one row for (node, s.ID) and its other
\* rows are as before, and every query whose table group contains the
\* services table returns a watermark of at least i
C11_EnsureServiceIsVisible ==
    [][
        (ret'.op = "EnsureService" /\ ~ret'.err)
        => LET a   == ret'.args
               out == NodeServices(db', StartTxn(db'), a.node)
           IN  /\ out.ns # {}
               /\ \A n \in out.ns :
                     /\ a.ns.ID \in DOMAIN n.Services
                     /\ n.Services[a.ns.ID] = a.ns
               /\ Cardinality({r \in db'.rows[dbServices] :
                                 r.Node = a.node /\ r.ServiceID = a.ns.ID}) = 1
               /\ OtherServices(db', a.node, a.ns.ID) = OtherServices(db, a.node, a.ns.ID)
               /\ \A q \in DOMAIN queryTables :
                     dbServices \in queryTables[q]
                     => LastIndexTxn(StartTxn(db'), queryTables[q]) >= a.index
    ]_vars

\* EnsureService has put the api service in the place of s1 next to db
C11_Witness ==
    /\ ret.op = "EnsureService" /\ ~ret.err /\ ret.args.ns = Api1
    /\ {r.ServiceName : r \in db.rows[dbServices]} = {"api", "db"}
    /\ \E c \in db.rows[dbChecks] : c.ServiceID = "s1" /\ c.ServiceName = "web"

\* the rows of a table that belong to other nodes than `node`
OtherNodes(store, t, node) == {r \in store.rows[t] : r.Node # node}

\* C12: when DeleteNode(i, node) succeeds, GetNode(node) finds nothing,
\* NodeServices(node) and NodeChecks(node) return nothing and no services or
\* checks row names the node; the rows of other nodes and the other tables
\* are as before; and the watermark of nodes, services and checks is i if the
\* table lost a row and unchanged if it did not
C12_DeleteNodeRemovesTheNode ==
    [][
        (ret'.op = "DeleteNode" /\ ~ret'.err)
        => LET a     == ret'.args
               group == {dbNodes, dbServices, dbChecks}
           IN  /\ ~GetNode(db', a.node).found
               /\ NodeServices(db', StartTxn(db'), a.node).ns = {}
               /\ NodeChecks(db', a.node).res = {}
               /\ \A t \in group :
                     /\ \A r \in db'.rows[t] : r.Node # a.node
                     /\ OtherNodes(db', t, a.node) = OtherNodes(db, t, a.node)
                     /\ db'.idx[t] = IF db'.rows[t] # db.rows[t] THEN a.index
                                      ELSE db.idx[t]
               /\ \A t \in Tables \ group :
                     db'.rows[t] = db.rows[t] /\ db'.idx[t] = db.idx[t]
    ]_vars

\* DeleteNode has removed n1 with its service while n2 keeps its service and
\* check, and the checks table, which lost nothing, keeps its watermark
C12_Witness ==
    /\ ret.op = "DeleteNode" /\ ~ret.err /\ ret.args.node = "n1"
    /\ ret.touched = {dbNodes, dbServices}
    /\ db.rows[dbNodes] = {Node2}
    /\ {r.Node : r \in db.rows[dbServices]} = {"n2"}
    /\ db.rows[dbChecks] = {Check2}
    /\ db.idx[dbChecks] # ret.args.index

\* the check EnsureCheck stores for a given check
StoredCheck(store, check) ==
    LET srv == {r \in store.rows[dbServices] :
                   r.Node = check.Node /\ r.ServiceID = check.ServiceID}
    IN  [check EXCEPT
            !.Status = IF check.Status = "" THEN "unknown" ELSE check.Status,
            !.ServiceName = IF check.ServiceID # ""
                            THEN (CHOOSE r \in srv : TRUE).ServiceName
                            ELSE check.ServiceName]

\* C22: EnsureCheck(index, check) on a registered node, with the service
\* registered if the check names one, succeeds; a successful call leaves
\* under (Node, CheckID) exactly the given check with an empty Status turned
\* into "unknown" and, for a non-empty ServiceID, the ServiceName of the
\* services row (Node, ServiceID); the other checks are as before and the
\* checks watermark is index
C22_EnsureCheckStoresTheCheck ==
    [][
        (ret'.op = "EnsureCheck")
        => LET c == ret'.args.check
               registered ==
                   /\ \E n \in db.rows[dbNodes] : n.Node = c.Node
                   /\ c.ServiceID # "" =>
                         \E r \in db.rows[dbServices] :
                             r.Node = c.Node /\ r.ServiceID = c.ServiceID
           IN  /\ registered => ~ret'.err
               /\ ~ret'.err =>
                     /\ db'.rows[dbChecks] =
                           {x \in db.rows[dbChecks] :
                               ~(x.Node = c.Node /\ x.CheckID = c.CheckID)}
                           \cup {StoredCheck(db, c)}
                     /\ db'.idx[dbChecks] = ret'.args.index
    ]_vars

\* EnsureCheck was given c1 of service s1 with no Status and a ServiceName of
\* its own while s1 is the api service: c1 is stored as unknown and api
C22_Witness ==
    /\ ret.op = "EnsureCheck" /\ ~ret.err
    /\ ret.args.check.CheckID = "c1" /\ ret.args.check.Status = ""
    /\ ret.args.check.ServiceID = "s1" /\ ret.args.check.ServiceName = "bogus"
    /\ \E x \in db.rows[dbChecks] :
          /\ x.CheckID = "c1" /\ x.Status = "unknown" /\ x.ServiceName = "api"
    /\ Cardinality(db.rows[dbChecks]) = 2

\* C13: a successful DeleteNodeService(index, node, id) removes the services
\* row (node, id) and the checks with Node = node and ServiceID = id and no
\* other row of any table; the services and the checks watermark become index,
\* and the table's NotifyGroup fires, exactly when that table lost a row
C13_DeleteNodeServiceRemovesOnlyItsRows ==
    [][
        (ret'.op = "DeleteNodeService" /\ ~ret'.err)
        => LET a == ret'.args
           IN  /\ db'.rows[dbServices] = db.rows[dbServices] \
                     {r \in db.rows[dbServices] : r.Node = a.node /\ r.ServiceID = a.id}
               /\ db'.rows[dbChecks] = db.rows[dbChecks] \
                     {c \in db.rows[dbChecks] : c.Node = a.node /\ c.ServiceID = a.id}
               /\ \A t \in Tables \ {dbServices, dbChecks} :
                     /\ db'.rows[t] = db.rows[t]
                     /\ db'.idx[t] = db.idx[t]
                     /\ t \notin ret'.notified
               /\ \A t \in {dbServices, dbChecks} :
                     IF db'.rows[t] # db.rows[t]
                     THEN db'.idx[t] = a.index /\ t \in ret'.notified
                     ELSE db'.idx[t] = db.idx[t] /\ t \notin ret'.notified
    ]_vars

\* DeleteNodeService has removed s2 and its check; s1 and the node-wide check
\* are still there
C13_Witness ==
    /\ ret.op = "DeleteNodeService" /\ ~ret.err /\ ret.args.id = "s2"
    /\ ret.touched = {dbServices, dbChecks}
    /\ {r.ServiceID : r \in db.rows[dbServices]} = {"s1"}
    /\ db.rows[dbChecks] = {Check1}

----------------------------------------------------------------------------
(* Properties of key deletion and key listing *)

\* the kvs rows whose Key begins with a prefix; every row for the empty prefix
UnderPrefix(store, prefix) ==
    {r \in store.rows[dbKVS] : IsPrefix(prefix, r.Key)}

\* C14: a successful KVSDeleteTree removes exactly the kvs rows whose Key
\* begins with the prefix (all of them for the empty prefix), and a
\* successful KVSDelete or KVSDeleteTree sets the kvs watermark to its index
\* and fires the kvs NotifyGroup exactly when it removed a row
C14_DeleteTreeRemovesThePrefix ==
    [][
        /\ (ret'.op = "KVSDeleteTree" /\ ~ret'.err)
           => db'.rows[dbKVS] = db.rows[dbKVS] \ UnderPrefix(db, ret'.args.prefix)
        /\ (ret'.op \in {"KVSDelete", "KVSDeleteTree"} /\ ~ret'.err)
           => /\ db'.rows[dbKVS] \subseteq db.rows[dbKVS]
              /\ IF db'.rows[dbKVS] # db.rows[dbKVS]
                 THEN db'.idx[dbKVS] = ret'.args.index /\ ret'.notified = {dbKVS}
                 ELSE db'.idx[dbKVS] = db.idx[dbKVS] /\ ret'.notified = {}
    ]_vars

\* KVSDeleteTree("a/a") has removed a/a and a/a/b and left a/, a/b and b
C14_Witness ==
    /\ ret.op = "KVSDeleteTree" /\ ~ret.err /\ ret.args.prefix = <<"a", "/", "a">>
    /\ ret.notified = {dbKVS}
    /\ {r.Key : r \in db.rows[dbKVS]} = {<<"a", "/">>, <<"a", "/", "b">>, <<"b">>}
    /\ db.idx[dbKVS] = 2

\* a key cut just after the first occurrence of the seperator that follows
\* the prefix, or the whole key when there is none or the seperator is empty
Cut(key, prefix, seperator) ==
    LET ends == {n \in (Len(prefix) + Len(seperator)) .. Len(key) :
                    SubSeq(key, n - Len(seperator) + 1, n) = seperator}
    IN  IF seperator = <<>> \/ ends = {} THEN key
        ELSE SubSeq(key, 1, CHOOSE n \in ends : \A o \in ends : n <= o)

\* C15: KVSListKeys(prefix, seperator) returns, for the stored keys that
\* begin with prefix, the key itself when seperator is empty or does not
\* occur after the prefix and otherwise the key cut just after the first
\* seperator following the prefix, each once and in ascending byte order,
\* with the kvs watermark
C15_ListKeysCutsAtTheSeperator ==
    [][
        (ret'.op = "KVSListKeys")
        => LET a     == ret'.args
               res   == ret'.res
               under == {r.Key : r \in UnderPrefix(db', a.prefix)}
           IN  /\ Range(res) = {Cut(k, a.prefix, a.seperator) : k \in under}
               /\ \A i, j \in 1 .. Len(res) : i < j => KeyLess(res[i], res[j])
               /\ ret'.index = db'.idx[dbKVS]
    ]_vars

\* with a/, a/a, a/a/b and a/b stored, KVSListKeys("a/", "/") has returned
\* a/, a/a, a/a/ and a/b
C15_Witness ==
    /\ ret.op = "KVSListKeys"
    /\ ret.args = [prefix |-> <<"a", "/">>, seperator |-> <<"/">>]
    /\ TreeKeys \ {<<"b">>} \subseteq {r.Key : r \in db.rows[dbKVS]}
    /\ ret.res = << <<"a", "/">>, <<"a", "/", "a">>, <<"a", "/", "a", "/">>,
                    <<"a", "/", "b">> >>

----------------------------------------------------------------------------
(* Properties of sessions *)

\* the node of a session is registered and each listed check is registered
\* for that node in a state other than critical
SessionValid(store, session) ==
    /\ \E n \in store.rows[dbNodes] : n.Node = session.Node
    /\ \A c \in Range(session.Checks) :
          \E chk \in store.rows[dbChecks] :
              /\ chk.Node = session.Node /\ chk.CheckID = c
              /\ chk.Status # HealthCritical

\* C16: a SessionCreate(index, session) call that returns succeeds exactly
\* when the node is registered and every listed check is registered for it
\* and not critical; on success the session is stored under the generated ID
\* with CreateIndex = index and the sessions and sessionChecks watermarks are
\* index; on failure the sessions and sessionChecks rows are as before
C16_SessionCreateChecksNodeAndChecks ==
    [][
        (ret'.op = "SessionCreate" /\ hung' = hung)
        => LET a == ret'.args
           IN  /\ ~ret'.err <=> SessionValid(db, a.session)
               /\ ~ret'.err =>
                     /\ a.id # ""
                     /\ {s \in db'.rows[dbSessions] : s.ID = a.id} =
                           {[a.session EXCEPT !.ID = a.id, !.CreateIndex = a.index]}
                     /\ db'.idx[dbSessions] = a.index
                     /\ db'.idx[dbSessionChecks] = a.index
               /\ ret'.err =>
                     /\ db'.rows[dbSessions] = db.rows[dbSessions]
                     /\ db'.rows[dbSessionChecks] = db.rows[dbSessionChecks]
    ]_vars

\* SessionCreate has succeeded with a check that is in the warning state
C16_Witness ==
    /\ ret.op = "SessionCreate" /\ ~ret.err
    /\ ret.args.session.Checks = <<"c1">>
    /\ \E chk \in db.rows[dbChecks] : chk.CheckID = "c1" /\ chk.Status = HealthWarning
    /\ \E s \in db.rows[dbSessions] : s.ID = "id1" /\ s.CreateIndex = ret.args.index

\* the sessionChecks rows (node, check, id)
SessionCheckRows(store, node, check, id) ==
    {x \in store.rows[dbSessionChecks] :
        x.Node = node /\ x.CheckID = check /\ x.Session = id}

\* every check a stored session lists has exactly one sessionChecks row
ListedChecksHaveOneRow ==
    \A s \in db.rows[dbSessions] : \A c \in Range(s.Checks) :
        Cardinality(SessionCheckRows(db, s.Node, c, s.ID)) = 1

\* every sessionChecks row belongs to a stored session that lists its check
RowsHaveTheirSession ==
    \A x \in db.rows[dbSessionChecks] :
        \E s \in db.rows[dbSessions] :
            s.ID = x.Session /\ s.Node = x.Node /\ x.CheckID \in Range(s.Checks)

\* C17: in every reachable state each check listed by a stored session has
\* exactly one sessionChecks row (Node, CheckID, ID), and each sessionChecks
\* row belongs to a stored session that lists its check
C17_SessionChecksMirrorSessions == ListedChecksHaveOneRow /\ RowsHaveTheirSession

\* C17, the half that holds: each check listed by a stored session has
\* exactly one sessionChecks row, also when the session lists it twice
C17_ListedChecksHaveOneRow == ListedChecksHaveOneRow

\* SessionRestore has stored session id2 again, now without checks, and the
\* sessionChecks row of its earlier check list is still there
C17_Witness ==
    /\ ret.op = "SessionRestore" /\ ~ret.err
    /\ ret.args.session.ID = "id2" /\ ret.args.session.Checks = <<>>
    /\ \E s \in db.rows[dbSessions] : s.ID = "id2" /\ s.Checks = <<>>
    /\ SessionCheckRows(db, "n1", "c1", "id2") # {}

----------------------------------------------------------------------------
(* Properties of the restore methods *)

\* C18: a successful KVSRestore(entry) stores the entry as given, replacing
\* the row of the same Key and no other row, and leaves the kvs watermark at
\* the maximum of its previous value and the entry's ModifyIndex
C18_RestoreRaisesTheWatermark ==
    [][
        (ret'.op = "KVSRestore" /\ ~ret'.err)
        => LET d == ret'.args.d
           IN  /\ db'.rows[dbKVS] =
                     {r \in db.rows[dbKVS] : r.Key # d.Key} \cup {d}
               /\ db'.idx[dbKVS] = Max(db.idx[dbKVS], d.ModifyIndex)
    ]_vars

\* C18, what the code does: the entry is stored as given and the kvs
\* watermark is left as it was
C18_RestoreLeavesTheWatermark ==
    [][
        (ret'.op = "KVSRestore" /\ ~ret'.err)
        => LET d == ret'.args.d
           IN  /\ db'.rows[dbKVS] =
                     {r \in db.rows[dbKVS] : r.Key # d.Key} \cup {d}
               /\ db'.idx = db.idx
    ]_vars

\* KVSRestore has stored an entry whose ModifyIndex is above the kvs
\* watermark
C18_Witness ==
    /\ ret.op = "KVSRestore" /\ ~ret.err
    /\ ret.args.d \in db.rows[dbKVS]
    /\ ret.args.d.ModifyIndex > db.idx[dbKVS]

\* the watermarks after restoring session a and then session b
RestoredBoth(store, a, b) ==
    SessionRestoreTxn(SessionRestoreTxn(store, a, NoFault).tx, b, NoFault).tx.idx

\* C19: SessionRestore(session) succeeds whether or not the node and the
\* checks are registered, stores the session as given (ID and CreateIndex
\* kept) in the place of the session with that ID, adds one sessionChecks row
\* per listed check and sets the sessions and the sessionChecks watermark to
\* the maximum of the previous watermark and session.CreateIndex; from any
\* reachable state, restoring two sessions in either order ends with the
\* same watermarks
C19_SessionRestoreKeepsTheSession ==
    /\ [][
           (ret'.op = "SessionRestore")
           => LET s == ret'.args.session
              IN  /\ ~ret'.err
                  /\ db'.rows[dbSessions] =
                        {r \in db.rows[dbSessions] : r.ID # s.ID} \cup {s}
                  /\ db'.rows[dbSessionChecks] = db.rows[dbSessionChecks] \cup
                        {[Node |-> s.Node, CheckID |-> c, Session |-> s.ID] :
                            c \in Range(s.Checks)}
                  /\ \A t \in {dbSessions, dbSessionChecks} :
                        db'.idx[t] = Max(db.idx[t], s.CreateIndex)
                  /\ \A t \in Tables \ {dbSessions, dbSessionChecks} :
                        db'.rows[t] = db.rows[t] /\ db'.idx[t] = db.idx[t]
       ]_vars
    /\ [](\A i, j \in CallIndexes :
            LET a == [Session1 EXCEPT !.ID = "id2", !.CreateIndex = i]
                b == [Session1 EXCEPT !.ID = "id1", !.CreateIndex = j]
            IN  RestoredBoth(db, a, b) = RestoredBoth(db, b, a))

\* SessionRestore has stored a session with a check while neither its node
\* nor the check is registered, below a watermark that stayed where it was
C19_Witness ==
    /\ ret.op = "SessionRestore" /\ ~ret.err
    /\ ret.args.session.Checks = <<"c1">>
    /\ ret.args.session \in db.rows[dbSessions]
    /\ db.rows[dbNodes] = {} /\ db.rows[dbChecks] = {}
    /\ SessionCheckRows(db, "n1", "c1", "id2") # {}
    /\ ret.args.session.CreateIndex < db.idx[dbSessions]

----------------------------------------------------------------------------
(* Properties of the index a read returns *)

\* the declared table group of a query; GetNode reads the nodes table
GroupOf(q) == IF q = "GetNode" THEN queryTables["Nodes"] ELSE queryTables[q]

\* the lookups that find nothing in a store
FindsNothing(store, q, arg) ==
    CASE q \in {"GetNode", "NodeServices"} ->
            \A n \in store.rows[dbNodes] : n.Node # arg
      [] q = "NodeChecks" -> \A c \in store.rows[dbChecks] : c.Node # arg
      [] q = "KVSGet"     -> \A d \in store.rows[dbKVS] : d.Key # arg
      [] q = "KVSList"    -> \A d \in store.rows[dbKVS] : ~IsPrefix(arg, d.Key)
      [] OTHER -> FALSE

\* the empty result of a query
NothingFound(q) == IF q = "GetNode" THEN [found |-> FALSE, addr |-> ""] ELSE {}

\* C21: a read query returns without error the largest watermark among the
\* tables of its group as they were when its read transaction started, and
\* GetNode, NodeServices, NodeChecks, KVSGet and KVSList on a name that is
\* not stored return the empty result with that watermark
C21_ReadsReturnTheGroupWatermark ==
    [][
        (/\ ret'.op \in DOMAIN LookupArgs \cup DOMAIN QueryArgs
         /\ db' = db
         /\ ReadReturns \/ (~rd.open /\ ~rd'.open))
        => LET view == IF rd.open THEN rd.tx ELSE db
               q    == ret'.op
           IN  /\ ~ret'.err
               /\ \A t \in GroupOf(q) : view.idx[t] <= ret'.index
               /\ \E t \in GroupOf(q) : view.idx[t] = ret'.index
               /\ FindsNothing(view, q, ret'.args.arg)
                  => ret'.res = NothingFound(q)
    ]_vars

\* NodeServices on a node that is not registered has returned nil with the
\* watermark of its transaction, which writes have since left behind
C21_Witness ==
    /\ ret.op = "NodeServices" /\ ret.args.arg = "n9"
    /\ ret.res = {}
    /\ ret.index > 0
    /\ ret.index < db.idx[dbServices]

----------------------------------------------------------------------------
(* Properties of the health of a service *)

\* the services rows CheckServiceNodes (q) or CheckServiceTagNodes has to
\* answer with, in the view tx
Instances(tx, q, arg) ==
    IF q = "CheckServiceNodes"
    THEN {s \in tx.rows[dbServices] : s.ServiceName = arg}
    ELSE {s \in tx.rows[dbServices] :
             s.ServiceName = arg[1] /\ arg[2] \in s.ServiceTags}

\* entry e is the health of the instance s: the node's record, the service's
\* ID, name, tags and port, and the checks of (Node, ServiceID) followed by
\* the node-wide ones, each once and no other
HealthOf(tx, s, e) ==
    /\ e.Node \in tx.rows[dbNodes]
    /\ e.Node.Node = s.Node
    /\ e.Service = [ID |-> s.ServiceID, Service |-> s.ServiceName,
                    Tags |-> s.ServiceTags, Port |-> s.ServicePort]
    /\ Range(e.Checks) =
          {c \in tx.rows[dbChecks] :
              c.Node = s.Node /\ c.ServiceID \in {s.ServiceID, ""}}
    /\ \A j, k \in 1 .. Len(e.Checks) :
          /\ j # k => e.Checks[j] # e.Checks[k]
          /\ (j < k /\ e.Checks[j].ServiceID = "") => e.Checks[k].ServiceID = ""

\* C23: CheckServiceNodes(service) returns one entry per services row named
\* service, CheckServiceTagNodes one per such row that has the tag; the entry
\* carries the node's record, the service's ID, name, tags and port, and as
\* Checks the checks of that (Node, ServiceID) followed by the node-wide
\* checks of the node, no check of another service or node and none twice.
C23_CheckServiceNodesJoinsNodeServiceAndChecks ==
    [][(ReadReturns /\ rd.q \in {"CheckServiceNodes", "CheckServiceTagNodes"}) =>
          LET rows == Instances(rd.tx, rd.q, rd.arg)
              res  == ret'.res
          IN  /\ Len(res) = Cardinality(rows)
              /\ \A s \in rows :
                    \E i \in 1 .. Len(res) : HealthOf(rd.tx, s, res[i])]_vars

\* CheckServiceTagNodes("web", "t1") returned two entries while n1 has a
\* second web service without the tag; the entry of n1 lists the check of
\* s1 before the node-wide check
C23_Witness ==
    /\ ret.op = "CheckServiceTagNodes"
    /\ Len(ret.res) = 2
    /\ WebPlain \in {[ID |-> s.ServiceID, Service |-> s.ServiceName,
                       Tags |-> s.ServiceTags, Port |-> s.ServicePort] :
                          s \in db.rows[dbServices]}
    /\ \E i \in 1 .. 2 :
          /\ ret.res[i].Node = Node1
          /\ Len(ret.res[i].Checks) = 2
          /\ ret.res[i].Checks[1].ServiceID = "s1"
          /\ ret.res[i].Checks[2].ServiceID = ""

----------------------------------------------------------------------------
(* Properties of the session ID *)

\* C24: SessionCreate always returns, and a call that stores a session stores
\* it under an ID no session had before and leaves every session that was
\* stored as it was: on a collision of the generated ID a new one is
\* generated until a free one is found.
C24_SessionCreateFindsAFreeID ==
    /\ []~hung
    /\ [][(ret'.op = "SessionCreate" /\ ret' # ret /\ ~ret'.err) =>
             /\ \A s \in db.rows[dbSessions] : s \in db'.rows[dbSessions]
             /\ Cardinality(db'.rows[dbSessions]) =
                   Cardinality(db.rows[dbSessions]) + 1]_vars

\* what the code does: the ID is generated once (line 1133); a call returns
\* only when no session has that ID, and then no stored session is replaced
C24_ReturningCreateKeepsTheSessions ==
    [][(ret'.op = "SessionCreate" /\ hung' = hung /\ db' # db) =>
          /\ \A s \in db.rows[dbSessions] :
                s \in db'.rows[dbSessions] /\ s.ID # ret'.args.id
          /\ \E s \in db'.rows[dbSessions] : s.ID = ret'.args.id]_vars

\* a session is stored under id1, generateUUID returned id1 to a second
\* SessionCreate, and that call is looking id1 up for ever
C24_Witness ==
    /\ hung
    /\ \E s \in db.rows[dbSessions] : s.ID = "id1"

----------------------------------------------------------------------------
(* Properties of the sessions as the catalog changes *)

\* C25: in every reachable state every stored session is valid: its node is
\* registered and every check it lists is registered for that node and not
\* critical.
C25_EverySessionIsValid ==
    \A s \in db.rows[dbSessions] : SessionValid(db, s)

\* what the code keeps: no catalog write changes the sessions or the
\* sessionChecks table
C25_CatalogWritesLeaveTheSessions ==
    [][ret'.op \in {"EnsureNode", "EnsureService", "EnsureCheck", "DeleteNode",
                    "DeleteNodeService", "DeleteNodeCheck"} =>
          /\ db'.rows[dbSessions] = db.rows[dbSessions]
          /\ db'.rows[dbSessionChecks] = db.rows[dbSessionChecks]]_vars

\* the session SessionCreate stored under id1 with check c1 is still stored
\* after DeleteNode has removed its node and its check
C25_Witness ==
    /\ ret.op = "DeleteNode" /\ ~ret.err
    /\ db.rows[dbNodes] = {} /\ db.rows[dbChecks] = {}
    /\ \E s \in db.rows[dbSessions] : s.ID = "id1" /\ s.Checks = <<"c1">>

----------------------------------------------------------------------------
(* Properties of the references between the catalog tables *)

\* every service and every check is of a registered node, and every check
\* of a service is of a registered service of its node
Intact(store) ==
    /\ \A s \in store.rows[dbServices] :
          \E n \in store.rows[dbNodes] : n.Node = s.Node
    /\ \A c \in store.rows[dbChecks] :
          /\ \E n \in store.rows[dbNodes] : n.Node = c.Node
          /\ c.ServiceID # "" =>
                \E s \in store.rows[dbServices] :
                    s.Node = c.Node /\ s.ServiceID = c.ServiceID

\* C26: after any sequence of EnsureNode, EnsureService, EnsureCheck,
\* DeleteNode, DeleteNodeService and DeleteNodeCheck calls every services
\* row and every checks row is of a node in nodes and every checks row with
\* a ServiceID has its services row; so ServiceNodes and CheckServiceNodes
\* return no empty placeholder entry of a failed node join.
C26_CatalogIsReferentiallyIntact ==
    /\ []Intact(db)
    /\ [][(ReadReturns /\ rd.q = "ServiceNodes") =>
             ZeroServiceNode \notin ret'.res]_vars
    /\ [][(ReadReturns /\ rd.q = "CheckServiceNodes") =>
             \A i \in 1 .. Len(ret'.res) : ret'.res[i] # ZeroCheckServiceNode]_vars

\* DeleteNodeService has removed service s1 of n1 together with its check
\* while n2 keeps its web service and the check of it
C26_Witness ==
    /\ ret.op = "DeleteNodeService" /\ ret.args.node = "n1"
    /\ ret.touched = {dbServices, dbChecks}
    /\ \E c \in db.rows[dbChecks] : c.Node = "n2" /\ c.ServiceID = "s1"
    /\ \E s \in db.rows[dbServices] : s.Node = "n2"
    /\ \A s \in db.rows[dbServices] : s.Node = "n1" => s.ServiceID = "s2"

----------------------------------------------------------------------------
(* Properties of the ServiceName of a check *)

\* the checks of the services that are named `name` in the store
ChecksOfServicesNamed(store, name) ==
    {c \in store.rows[dbChecks] :
        \E s \in store.rows[dbServices] :
            s.Node = c.Node /\ s.ServiceID = c.ServiceID /\ s.ServiceName = name}

\* C27: in every reachable state a check with a ServiceID carries the
\* ServiceName of the services row (Node, ServiceID) as it is now, so
\* ServiceChecks(name) returns exactly the checks of the services now named
\* name, also after EnsureService has registered an existing (Node,
\* ServiceID) under another ServiceName.
C27_ChecksCarryTheCurrentServiceName ==
    /\ \A c \in db.rows[dbChecks] :
          c.ServiceID # "" =>
             \E s \in db.rows[dbServices] :
                /\ s.Node = c.Node /\ s.ServiceID = c.ServiceID
                /\ s.ServiceName = c.ServiceName
    /\ \A name \in {"web", "api"} :
          ServiceChecks(db, name).res = ChecksOfServicesNamed(db, name)

\* EnsureService has registered s1 of n1, which was web, as api; the check
\* of s1 still says web, so ServiceChecks("web") returns it and
\* ServiceChecks("api") returns nothing
C27_Witness ==
    /\ ret.op = "EnsureService" /\ ~ret.err /\ ret.args.ns = Api1
    /\ \E s \in db.rows[dbServices] : s.ServiceID = "s1" /\ s.ServiceName = "api"
    /\ \E c \in db.rows[dbChecks] : c.ServiceID = "s1" /\ c.ServiceName = "web"
    /\ ServiceChecks(db, "web").res # {}
    /\ ServiceChecks(db, "api").res = {}

----------------------------------------------------------------------------
(* Properties of the indexes of the KV entries *)

\* C28: after KVSSet, KVSCheckAndSet, KVSDelete and KVSDeleteTree calls
\* whose index arguments never decrease, every stored entry has CreateIndex
\* <= ModifyIndex <= the kvs watermark, and the watermark is the index of
\* the last call that changed the kvs table: a call that changes the rows
\* sets it to its index, and a call that changes none (a check-and-set that
\* fails, a delete that removes nothing) leaves it.
C28_KVIndexesFollowTheWatermark ==
    /\ [](\A d \in db.rows[dbKVS] :
             d.CreateIndex <= d.ModifyIndex /\ d.ModifyIndex <= db.idx[dbKVS])
    /\ [][ret'.op \in {"KVSSet", "KVSCheckAndSet", "KVSDelete", "KVSDeleteTree"} =>
             db'.idx[dbKVS] = IF db'.rows[dbKVS] # db.rows[dbKVS]
                              THEN ret'.args.index
                              ELSE db.idx[dbKVS]]_vars

\* key a was created at index 1 and set again at index 2; then a
\* check-and-set of it that expected ModifyIndex 1 failed and changed nothing
C28_Witness ==
    /\ ret.op = "KVSCheckAndSet" /\ ~ret.ok /\ ~ret.err
    /\ ret.args.index = 2 /\ ret.args.d.ModifyIndex = 1
    /\ db.idx[dbKVS] = 2
    /\ \E d \in db.rows[dbKVS] :
          d.Key = ret.args.d.Key /\ d.CreateIndex = 1 /\ d.ModifyIndex = 2

====
